---- MODULE Spec2Model ----
(***************************************************************************)
(* Storage failover delegator, the two storage backends it routes to, and  *)
(* the timer-driven ingestion loop of the solar-farm monitoring server.    *)
(*                                                                         *)
(* The server is one single-threaded event loop.  An action of this model  *)
(* is one run-to-completion job of that loop: the arrival of a database    *)
(* response, the start of an HTTP handler, a timer tick.  Everything that  *)
(* a job schedules as promise continuations (microtasks) runs before the   *)
(* next job, so it is part of the same action.                             *)
(***************************************************************************)
EXTENDS Integers, Sequences, FiniteSets, TLC

\* ------------------------------------------------------------------------
\* Bounds of the model
\* ------------------------------------------------------------------------
\* Total number of calls made on the delegator (handlers and ingestion).
MaxCalls == 5
\* Number of those calls that the proxy passes on to DbStorage.
MaxDurableCalls == 4
\* Number of timer ticks that fire.
MaxTicks == 2
\* Largest number of panels in one sensor snapshot.
MaxSnapshot == 2
\* Number of panels of the farm.
NumPanels == 2
\* HTTP requests address the first MaxRequestPanels panels.
MaxRequestPanels == 1
\* Largest number of durable calls that HTTP handlers have in flight.
MaxInFlight == 2
\* Number of WebSocket connections that are ever made.
MaxConnections == 3
\* Number of messages the transport sends in all.
MaxSent == 4
\* Number of recommendations that are created.
MaxRecommendations == 3
\* Number of panels created after the initial ones, and the largest panel
\* number given to one.
MaxNewPanels == 3
MaxPanelNumber == 4
\* Number of calls of the durable backend's auto-tilt operations.
MaxTiltCalls == 3
\* Number of alerts that are created.
MaxAlerts == 3
\* Longest list of saved readings that a sample is taken of.
MaxSaved == 12

\* ------------------------------------------------------------------------
\* Numbers.  JavaScript numbers are modelled by integers; the three
\* non-finite values are distinguished integers outside the used range.
\* ------------------------------------------------------------------------
NaN == 1000001
PosInfinity == 1000002
NegInfinity == 1000003

isNaN(val) == val = NaN

isFinite(val) == val \notin {NaN, PosInfinity, NegInfinity}

\* Math.min / Math.max on the finite part of the number domain.
MathMin(a, b) == IF a < b THEN a ELSE b

MathMax(a, b) == IF a > b THEN a ELSE b

MathAbs(a) == IF a < 0 THEN -a ELSE a

\* Math.round of a value given in tenths: floor(x + 0.5).
MathRoundTenths(t) == (t + 5) \div 10

\* ------------------------------------------------------------------------
\* Health score (identical text in MemStorage and DbStorage)
\* ------------------------------------------------------------------------
safeValue(val, defaultVal) == IF isNaN(val) \/ ~isFinite(val) THEN defaultVal ELSE val

\* A total that is returned without the clamp to [0, 100].
calculateHealthScoreUnclamped(reading) ==
    LET efficiency == safeValue(reading.efficiencyPercent, 50)
        dust == safeValue(reading.dustLevel, 5)
        temp == safeValue(reading.temperature, 25)
        efficiencyScore == 4 * efficiency
        dustScore == 30 * (10 - dust)
        temperatureScore == MathMax(0, 300 - MathAbs(temp - 25) * 15)
        totalScore == MathRoundTenths(efficiencyScore + dustScore + temperatureScore)
    IN  [efficiencyScore |-> MathRoundTenths(safeValue(efficiencyScore, 200)),
         dustScore |-> MathRoundTenths(safeValue(dustScore, 150)),
         temperatureScore |-> MathRoundTenths(safeValue(temperatureScore, 150)),
         totalScore |-> safeValue(totalScore, 50)]

\* A total that is the sum of the rounded sub-scores.
calculateHealthScoreRoundsFirst(reading) ==
    LET efficiency == safeValue(reading.efficiencyPercent, 50)
        dust == safeValue(reading.dustLevel, 5)
        temp == safeValue(reading.temperature, 25)
        efficiencyScore == MathRoundTenths(4 * efficiency)
        dustScore == MathRoundTenths(30 * (10 - dust))
        temperatureScore == MathRoundTenths(MathMax(0, 300 - MathAbs(temp - 25) * 15))
        totalScore == efficiencyScore + dustScore + temperatureScore
    IN  [efficiencyScore |-> efficiencyScore,
         dustScore |-> dustScore,
         temperatureScore |-> temperatureScore,
         totalScore |-> MathMin(100, MathMax(0, safeValue(totalScore, 50)))]

\* A total that leaves the temperature sub-score out.
calculateHealthScoreWithoutTemperature(reading) ==
    LET efficiency == safeValue(reading.efficiencyPercent, 50)
        dust == safeValue(reading.dustLevel, 5)
        temp == safeValue(reading.temperature, 25)
        efficiencyScore == 4 * efficiency
        dustScore == 30 * (10 - dust)
        temperatureScore == MathMax(0, 300 - MathAbs(temp - 25) * 15)
        totalScore == MathRoundTenths(efficiencyScore + dustScore)
    IN  [efficiencyScore |-> MathRoundTenths(safeValue(efficiencyScore, 200)),
         dustScore |-> MathRoundTenths(safeValue(dustScore, 150)),
         temperatureScore |-> MathRoundTenths(safeValue(temperatureScore, 150)),
         totalScore |-> MathMin(100, MathMax(0, safeValue(totalScore, 50)))]

\* Sub-scores are kept in tenths of a point until they are rounded.
calculateHealthScore(reading) ==
    LET efficiency == safeValue(reading.efficiencyPercent, 50)
        dust == safeValue(reading.dustLevel, 5)
        temp == safeValue(reading.temperature, 25)
        efficiencyScore == 4 * efficiency
        dustScore == 30 * (10 - dust)
        tempDiff == MathAbs(temp - 25)
        temperatureScore == MathMax(0, 300 - tempDiff * 15)
        totalScore == MathRoundTenths(efficiencyScore + dustScore + temperatureScore)
    IN  [efficiencyScore |-> MathRoundTenths(safeValue(efficiencyScore, 200)),
         dustScore |-> MathRoundTenths(safeValue(dustScore, 150)),
         temperatureScore |-> MathRoundTenths(safeValue(temperatureScore, 150)),
         totalScore |-> MathMin(100, MathMax(0, safeValue(totalScore, 50)))]

\* ------------------------------------------------------------------------
\* Error messages and their classification by the delegator
\* ------------------------------------------------------------------------
UpperCaseLetters == <<"A","B","C","D","E","F","G","H","I","J","K","L","M",
                      "N","O","P","Q","R","S","T","U","V","W","X","Y","Z">>

LowerCaseLetters == <<"a","b","c","d","e","f","g","h","i","j","k","l","m",
                      "n","o","p","q","r","s","t","u","v","w","x","y","z">>

toLowerCase(s) ==
    [i \in 1..Len(s) |->
        IF \E k \in 1..26 : UpperCaseLetters[k] = s[i]
        THEN LowerCaseLetters[CHOOSE k \in 1..26 : UpperCaseLetters[k] = s[i]]
        ELSE s[i]]

includes(s, sub) ==
    \E i \in 0..(Len(s) - Len(sub)) : SubSeq(s, i + 1, i + Len(sub)) = sub

ConnectionKeywords ==
    { <<"c","o","n","n","e","c","t","i","o","n">>,
      <<"t","i","m","e","o","u","t">>,
      <<"e","c","o","n","n">>,
      <<"e","c","o","n","n","r","e","f","u","s","e","d">>,
      <<"e","n","o","t","f","o","u","n","d">>,
      <<"n","e","t","w","o","r","k">>,
      <<"s","o","c","k","e","t">>,
      <<"t","e","r","m","i","n","a","t","e","d">> }

isConnectionError(message) ==
    LET errorMsg == toLowerCase(message)
    IN  \E kw \in ConnectionKeywords : includes(errorMsg, kw)

\* Messages of the errors a durable call is made to fail with.
MsgTimeout == <<"T","i","m","e","o","u","t">>
MsgConnReset == <<"r","e","a","d"," ","E","C","O","N","N","R","E","S","E","T">>
MsgDuplicateKey == <<"d","u","p","l","i","c","a","t","e"," ","k","e","y">>
MsgEmpty == << >>

ErrorMessages == {MsgTimeout, MsgConnReset, MsgDuplicateKey, MsgEmpty}

\* ------------------------------------------------------------------------
\* Panels and sensor data
\* ------------------------------------------------------------------------
\* MemStorage.initializePanels creates the panels panel-1 .. panel-200; the
\* model keeps the first NumPanels of them, a panel id being its number, and
\* the database is seeded with the same panels.
PanelIds == 1..NumPanels

\* 85 + Math.random() * 15
InitialHealthScore == 90

Undefined == -1

\* What the sensor source yields for a panel: energy output (W),
\* temperature and dust level.
SensorReadouts ==
    { [energyOutput |-> 250, temperature |-> 25, dustLevel |-> 0],
      [energyOutput |-> 0, temperature |-> 25, dustLevel |-> 10] }

NoSensor == [energyOutput |-> 0, temperature |-> 0, dustLevel |-> 0]

\* (energyOutput / 250) * 100
efficiencyPercent(energyOutput) ==
    IF isNaN(energyOutput) THEN NaN
    ELSE IF ~isFinite(energyOutput) THEN energyOutput
    ELSE (energyOutput * 100) \div 250

\* Math.min(100, Math.max(0, x)) on a JavaScript number
ClampPercent(x) ==
    IF isNaN(x) THEN NaN
    ELSE IF x = PosInfinity THEN 100
    ELSE IF x = NegInfinity THEN 0
    ELSE MathMin(100, MathMax(0, x))

\* The InsertSensorReading that the ingestion loop builds from a sensor
\* record; the reading routes pass one of the same shape.
InsertReadingOf(panelId, sensor) ==
    [panelId |-> panelId,
     energyOutput |-> sensor.energyOutput,
     temperature |-> sensor.temperature,
     dustLevel |-> sensor.dustLevel,
     efficiencyPercent |-> ClampPercent(efficiencyPercent(sensor.energyOutput))]

\* A stored SensorReading; id stands for randomUUID().
ReadingOf(id, insertReading) ==
    [id |-> id,
     panelId |-> insertReading.panelId,
     energyOutput |-> insertReading.energyOutput,
     temperature |-> insertReading.temperature,
     dustLevel |-> insertReading.dustLevel,
     efficiencyPercent |-> insertReading.efficiencyPercent]

NoReading == ReadingOf(<<"none", 0>>, InsertReadingOf(0, NoSensor))

NoFactors == [efficiencyScore |-> 0, dustScore |-> 0, temperatureScore |-> 0, totalScore |-> Undefined]

\* ------------------------------------------------------------------------
\* MemStorage
\* ------------------------------------------------------------------------
NewMemStorage ==
    [panels |-> [id \in PanelIds |-> InitialHealthScore],
     sensorReadings |-> {}]

MemUpdatePanelHealthScore(m, id, healthScore) ==
    IF id \in DOMAIN m.panels
    THEN [m EXCEPT !.panels[id] = healthScore]
    ELSE m

MemCreateReading(m, id, insertReading) ==
    LET reading == ReadingOf(id, insertReading)
        m1 == [m EXCEPT !.sensorReadings = @ \cup {reading}]
        healthScore == calculateHealthScore(reading)
    IN  IF ~isNaN(healthScore.totalScore) /\ isFinite(healthScore.totalScore)
        THEN MemUpdatePanelHealthScore(m1, reading.panelId, healthScore.totalScore)
        ELSE m1

MemGetPanelById(m, id) ==
    IF id \in DOMAIN m.panels THEN m.panels[id] ELSE Undefined

\* Every stored reading is younger than the 24 hour window.
MemGetReadingsByPanel(m, panelId) ==
    {r \in m.sensorReadings : r.panelId = panelId}

\* The currentReading of getPanelDetail: the first of the panel's readings
\* sorted by descending timestamp, the readings being created at different
\* times; NoReading stands for undefined.
MemCurrentReading(m, panelId) ==
    LET readings == MemGetReadingsByPanel(m, panelId)
    IN  IF readings = {} THEN NoReading
        ELSE CHOOSE r \in readings : \A x \in readings : x.id[2] <= r.id[2]

\* ------------------------------------------------------------------------
\* DbStorage (the tables it reads and writes)
\* ------------------------------------------------------------------------
SeededDatabase ==
    [panels |-> [id \in PanelIds |-> InitialHealthScore],
     sensorReadings |-> {}]

DbInsertReading(d, id, insertReading) ==
    [d EXCEPT !.sensorReadings = @ \cup {ReadingOf(id, insertReading)}]

DbUpdatePanelHealthScore(d, id, healthScore) ==
    IF id \in DOMAIN d.panels
    THEN [d EXCEPT !.panels[id] = healthScore]
    ELSE d

DbGetPanelById(d, id) ==
    IF id \in DOMAIN d.panels THEN d.panels[id] ELSE Undefined

DbGetReadingsByPanel(d, panelId) ==
    {r \in d.sensorReadings : r.panelId = panelId}

\* select ... where panel_id = panelId order by timestamp desc limit 1
DbGetLatestReadingByPanel(d, panelId) ==
    LET readings == DbGetReadingsByPanel(d, panelId)
    IN  IF readings = {} THEN NoReading
        ELSE CHOOSE r \in readings : \A x \in readings : x.id[2] <= r.id[2]

\* ------------------------------------------------------------------------
\* State
\* ------------------------------------------------------------------------
VARIABLES
    dbStorage,        \* StorageDelegator.dbStorage: "DbStorage" or "null"
    activeStorage,    \* StorageDelegator.activeStorage: "proxy" or "mem"
    dbFailureCount,   \* StorageDelegator.dbFailureCount
    usingMemStorage,  \* StorageDelegator.usingMemStorage
    memStorage,       \* the MemStorage instance of the delegator
    db,               \* the database tables behind DbStorage
    calls,            \* durable calls in flight, by call number
    nextCall,         \* number of the next call made on the delegator
    wsServer,         \* AutoPersistService.wsServer: TRUE when attached
    persistInterval,  \* AutoPersistService.persistInterval: "set" or "null"
    isRunning,        \* AutoPersistService.isRunning
    isPersisting,     \* AutoPersistService.isPersisting
    cycles,           \* the run of persistAllSensorData started by each tick
    ticks,            \* number of timer ticks fired so far
    returned,         \* what the last job returned to callers of the delegator
    connStreak,       \* connectivity failures completed since the last durable success
    reachedThree,     \* connStreak has been 3 or more at some time
    dbInvocations,    \* number of DbStorage methods invoked by the proxy
    snapshotsRead,    \* number of calls of getAllSensorData
    skippedTicks,     \* number of ticks skipped by the re-entrancy guard
    broadcasts        \* the aggregatedUpdate messages broadcast so far

\* The delegator, its backends and the ingestion service.
delegatorVars ==
    <<dbStorage, activeStorage, dbFailureCount, usingMemStorage, memStorage,
      db, calls, nextCall, wsServer, persistInterval, isRunning,
      isPersisting, cycles, ticks, returned, connStreak, reachedThree,
      dbInvocations, snapshotsRead, skippedTicks, broadcasts>>

\* RealtimeWebSocketServer and the sockets of its clients.
VARIABLES
    clients,          \* RealtimeWebSocketServer.clients
    readyState,       \* readyState of each WebSocket; "none" before it connects
    wire              \* what the server has sent, in order: [to, text]

transportVars == <<clients, readyState, wire>>

Sockets == 1..MaxConnections

InitTransport ==
    /\ clients = {}
    /\ readyState = [ws \in Sockets |-> "none"]
    /\ wire = << >>

\* A reading handed to calculateHealthScore of each backend, and what the
\* two calls have returned.
VARIABLES
    scoreInput,       \* the reading
    memScore,         \* result of MemStorage.calculateHealthScore
    dbScore           \* result of DbStorage.calculateHealthScore

scoreVars == <<scoreInput, memScore, dbScore>>

InitScore ==
    /\ scoreInput = NoReading
    /\ memScore = NoFactors
    /\ dbScore = NoFactors

\* The recommendations and the panels that each backend holds, and the list
\* that the last query returned.
VARIABLES
    memRecommendations, \* MemStorage.recommendations, in insertion order
    dbRecommendations,  \* rows of the table recommendations
    memPanelMap,        \* MemStorage.panels, in insertion order
    dbPanelRows,        \* rows of the table panels
    listed              \* [op, backend, list] of the last query

catalogVars == <<memRecommendations, dbRecommendations, memPanelMap, dbPanelRows, listed>>

NothingListed == [op |-> "none", backend |-> "none", list |-> << >>]

\* MemStorage.initializePanels sets the panels in the order of their
\* numbers; the table panels is seeded with the same panels.
InitCatalog ==
    /\ memRecommendations = << >>
    /\ dbRecommendations = {}
    /\ memPanelMap = [i \in 1..NumPanels |-> [id |-> <<"panel", i>>, panelNumber |-> i]]
    /\ dbPanelRows = {[id |-> <<"panel", i>>, panelNumber |-> i] : i \in 1..NumPanels}
    /\ listed = NothingListed

\* The auto-tilt settings of each backend and the calls of the durable
\* backend's operations that are under way.
VARIABLES
    memAutoTilt,   \* MemStorage.autoTiltSettings
    dbAutoTilt,    \* rows of the table auto_tilt_settings
    tiltCalls,     \* calls of DbStorage.getAutoTiltSettings / updateAutoTiltSettings
    tiltReturned   \* the last call that returned

tiltVars == <<memAutoTilt, dbAutoTilt, tiltCalls, tiltReturned>>

TiltFields == {"enabled", "mode", "minTiltAngle", "maxTiltAngle",
               "adjustmentInterval", "useWeatherData", "aggressiveness"}

\* The defaults of initializeAutoTiltSettings, which are also those of
\* DbStorage.getAutoTiltSettings and of the insert's ?? operands.
defaultSettings ==
    [enabled |-> FALSE, mode |-> "time_based", minTiltAngle |-> 15,
     maxTiltAngle |-> 60, adjustmentInterval |-> 60, useWeatherData |-> TRUE,
     aggressiveness |-> "moderate"]

\* An update that names no field.
NoFields == [f \in {} |-> FALSE]

TiltCallIds == 1..MaxTiltCalls

FreeTiltCall == [st |-> "free", op |-> "none", settings |-> NoFields, existing |-> 0]

NoTiltReturned ==
    [backend |-> "none", op |-> "none", call |-> 0, settings |-> NoFields,
     value |-> defaultSettings]

\* The constructor of MemStorage calls initializeAutoTiltSettings; the table
\* of the durable backend starts without a row.
InitTilt ==
    /\ memAutoTilt = defaultSettings
    /\ dbAutoTilt = {}
    /\ tiltCalls = [c \in TiltCallIds |-> FreeTiltCall]
    /\ tiltReturned = NoTiltReturned

\* The alerts that each backend holds and what the last alert operation
\* returned.
VARIABLES
    memAlerts,      \* MemStorage.alerts
    dbAlerts,       \* rows of the table alerts
    alertsReturned  \* [op, backend, arg, list] of the last alert operation

alertVars == <<memAlerts, dbAlerts, alertsReturned>>

NoAlertsReturned == [op |-> "none", backend |-> "none", arg |-> 0, list |-> {}]

InitAlerts ==
    /\ memAlerts = {}
    /\ dbAlerts = {}
    /\ alertsReturned = NoAlertsReturned

\* client.send of the broadcast methods (src/websocket-server.ts, lines 61,
\* 76 and 91) may throw: the sockets for which it does, and how the last
\* call of a broadcast method ended.
VARIABLES
    sendFails,         \* the sockets whose send throws
    broadcastOutcome   \* "none", "returned" or "threw"

faultVars == <<sendFails, broadcastOutcome>>

InitFaults ==
    /\ sendFails = {}
    /\ broadcastOutcome = "none"

\* Everything but the delegator, its backends and the ingestion service.
restOfServer == <<transportVars, scoreVars, catalogVars, tiltVars, alertVars, faultVars>>

\* What a job of the delegator or of the ingestion service leaves alone; a
\* cycle writes to the sockets through wsServer.broadcast.
restOfService == <<clients, readyState, sendFails, scoreVars, catalogVars, tiltVars, alertVars>>

vars == <<delegatorVars, restOfServer>>

MAX_DB_FAILURES == 3

CallIds == 1..MaxCalls

TickIds == 1..MaxTicks

NoError == <<"no error">>

\* caller 0 is an HTTP handler, caller k > 0 the ingestion cycle of tick k;
\* rid is the id of the row a createReading has inserted.
FreeCall == [st |-> "free", op |-> "none", panelId |-> 0, sensor |-> NoSensor,
             caller |-> 0, rid |-> 0]

\* size is the length of the snapshot the cycle read.
NoCycle == [st |-> "none", size |-> 0, remaining |-> << >>, savedReadings |-> << >>,
            attempted |-> 0, failed |-> 0, broadcasts |-> 0, caught |-> 0]

\* What a caller of the delegator gets back.  via is the backend that
\* produced it, fellBack tells that the durable call failed first.
NoReturn ==
    [call |-> 0, op |-> "none", panelId |-> 0, sensor |-> NoSensor, caller |-> 0,
     invokedIn |-> "none", via |-> "none", kind |-> "none",
     error |-> NoError, fellBack |-> FALSE,
     reading |-> NoReading, score |-> Undefined, readings |-> {},
     factors |-> NoFactors]

\* The three states of the delegator's state machine.
DelegatorState(storage, using) ==
    IF storage = "null" THEN "MEMORY_ONLY"
    ELSE IF using THEN "FALLBACK_ACTIVE"
    ELSE "DURABLE_ACTIVE"

\* ------------------------------------------------------------------------
\* RealtimeWebSocketServer.broadcast as the ingestion service calls it
\* ------------------------------------------------------------------------
\* JSON.stringify and JSON.parse: a text is the serialization of a value or
\* is not JSON at all.
JSONstringify(data) == <<"json", data>>

IsJSON(text) == Len(text) = 2 /\ text[1] = "json"

JSONparse(text) == text[2]

\* A broadcast that does not test readyState.
BroadcastTargetsAll(registry, state) == registry

\* The clients that the forEach of broadcast sends to (lines 89-93).
BroadcastTargets(registry, state) == {ws \in registry : state[ws] = "OPEN"}

\* A forEach that catches the exception of a send and goes on with the
\* next socket.
RECURSIVE SendToEachSkipsThrowing(_, _, _)
SendToEachSkipsThrowing(log, targets, text) ==
    IF targets = {} THEN log
    ELSE LET ws == CHOOSE x \in targets : \A y \in targets : x <= y
         IN  IF ws \in sendFails
             THEN SendToEachSkipsThrowing(log, targets \ {ws}, text)
             ELSE SendToEachSkipsThrowing(Append(log, [to |-> ws, text |-> text]),
                                          targets \ {ws}, text)

\* Set.prototype.forEach visits the sockets in the order they were added,
\* which is the order of their numbers; a send that throws ends the forEach.
RECURSIVE SendToEach(_, _, _)
SendToEach(log, targets, text) ==
    IF targets = {} THEN log
    ELSE LET ws == CHOOSE x \in targets : \A y \in targets : x <= y
         IN  IF ws \in sendFails THEN log
             ELSE SendToEach(Append(log, [to |-> ws, text |-> text]), targets \ {ws}, text)

\* The forEach over these sockets ends with an exception.
SendThrows(targets) == targets \cap sendFails # {}

\* The part of the state that a job of the event loop may change while it
\* runs the continuations it has made ready.
World ==
    [activeStorage |-> activeStorage, dbFailureCount |-> dbFailureCount,
     usingMemStorage |-> usingMemStorage, memStorage |-> memStorage, db |-> db,
     calls |-> calls, nextCall |-> nextCall, isPersisting |-> isPersisting,
     cycles |-> cycles, returned |-> << >>, connStreak |-> connStreak,
     reachedThree |-> reachedThree, dbInvocations |-> dbInvocations,
     broadcasts |-> broadcasts, wire |-> wire,
     broadcastOutcome |-> broadcastOutcome]

Install(w) ==
    /\ activeStorage' = w.activeStorage
    /\ dbFailureCount' = w.dbFailureCount
    /\ usingMemStorage' = w.usingMemStorage
    /\ memStorage' = w.memStorage
    /\ db' = w.db
    /\ calls' = w.calls
    /\ nextCall' = w.nextCall
    /\ isPersisting' = w.isPersisting
    /\ cycles' = w.cycles
    /\ returned' = w.returned
    /\ connStreak' = w.connStreak
    /\ reachedThree' = w.reachedThree
    /\ dbInvocations' = w.dbInvocations
    /\ broadcasts' = w.broadcasts
    /\ wire' = w.wire
    /\ broadcastOutcome' = w.broadcastOutcome

\* ------------------------------------------------------------------------
\* AutoPersistService.persistAllSensorData and the StorageDelegator.
\* A call made by an ingestion cycle hands its result back to the cycle,
\* which goes on with the next panel in the same job.
\* ------------------------------------------------------------------------
RECURSIVE SumEnergyOutput(_)
SumEnergyOutput(readings) ==
    IF readings = << >> THEN 0
    ELSE Head(readings).energyOutput + SumEnergyOutput(Tail(readings))

\* Array.prototype.slice(begin, end) with 0 <= begin <= end.
slice(array, begin, end) == SubSeq(array, begin + 1, MathMin(end, Len(array)))

\* A cycle that broadcasts whether or not a transport is attached and a
\* reading was saved.
CycleFinishAlwaysBroadcasts(w, k) ==
    LET savedReadings == w.cycles[k].savedReadings
        message == [type |-> "aggregatedUpdate",
                    cycle |-> k,
                    totalPanels |-> Len(savedReadings),
                    totalEnergyOutput |-> SumEnergyOutput(savedReadings),
                    latestReadings |-> slice(savedReadings, 0, 10)]
        targets == BroadcastTargets(clients, readyState)
    IN  [w EXCEPT !.broadcasts = Append(@, message),
                  !.cycles[k].broadcasts = @ + 1,
                  !.wire = SendToEach(@, targets, JSONstringify(message)),
                  !.broadcastOutcome = IF SendThrows(targets) THEN "threw" ELSE "returned",
                  !.cycles[k].caught = IF SendThrows(targets) THEN @ + 1 ELSE @,
                  !.cycles[k].st = "done",
                  !.isPersisting = FALSE]

\* A timer handler without the finally: an exception of broadcast leaves
\* the guard set.
CycleFinishWithoutFinally(w, k) ==
    LET savedReadings == w.cycles[k].savedReadings
        message == [type |-> "aggregatedUpdate",
                    cycle |-> k,
                    totalPanels |-> Len(savedReadings),
                    totalEnergyOutput |-> SumEnergyOutput(savedReadings),
                    latestReadings |-> slice(savedReadings, 0, 10)]
        sent == wsServer /\ Len(savedReadings) > 0
        targets == BroadcastTargets(clients, readyState)
        threw == sent /\ SendThrows(targets)
    IN  [w EXCEPT !.broadcasts = IF sent THEN Append(@, message) ELSE @,
                  !.cycles[k].broadcasts = IF sent THEN @ + 1 ELSE @,
                  !.wire = IF sent
                           THEN SendToEach(@, targets, JSONstringify(message))
                           ELSE @,
                  !.broadcastOutcome = IF ~sent THEN @
                                       ELSE IF threw THEN "threw" ELSE "returned",
                  !.cycles[k].caught = IF threw THEN @ + 1 ELSE @,
                  !.cycles[k].st = "done",
                  !.isPersisting = threw]

\* Lines 81-101 of persistAllSensorData, then the catch and the finally of
\* the timer handler that awaited it (lines 38-42): an exception of
\* broadcast leaves persistAllSensorData and is caught there.
CycleFinish(w, k) ==
    LET savedReadings == w.cycles[k].savedReadings
        message == [type |-> "aggregatedUpdate",
                    cycle |-> k,
                    totalPanels |-> Len(savedReadings),
                    totalEnergyOutput |-> SumEnergyOutput(savedReadings),
                    latestReadings |-> slice(savedReadings, 0, 10)]
        sent == wsServer /\ Len(savedReadings) > 0
        targets == BroadcastTargets(clients, readyState)
        threw == sent /\ SendThrows(targets)
    IN  [w EXCEPT !.broadcasts = IF sent THEN Append(@, message) ELSE @,
                  !.cycles[k].broadcasts = IF sent THEN @ + 1 ELSE @,
                  !.wire = IF sent
                           THEN SendToEach(@, targets, JSONstringify(message))
                           ELSE @,
                  !.broadcastOutcome = IF ~sent THEN @
                                       ELSE IF threw THEN "threw" ELSE "returned",
                  !.cycles[k].caught = IF threw THEN @ + 1 ELSE @,
                  !.cycles[k].st = "done",
                  !.isPersisting = FALSE]

RECURSIVE CycleLoop(_, _)

\* A loop without the inner try/catch: the error of one panel ends
\* persistAllSensorData and is caught by the timer handler.
CycleResumeAborts(w, ret) ==
    LET k == ret.caller
    IN  IF ret.kind = "throw"
        THEN [w EXCEPT !.cycles[k].failed = @ + 1,
                       !.cycles[k].st = "done",
                       !.isPersisting = FALSE]
        ELSE CycleLoop([w EXCEPT !.cycles[k].savedReadings = Append(@, ret.reading)], k)

\* The try/catch around storage.createReading in the for loop.
CycleResume(w, ret) ==
    LET k == ret.caller
    IN  IF ret.kind = "throw"
        THEN CycleLoop([w EXCEPT !.cycles[k].failed = @ + 1], k)
        ELSE CycleLoop([w EXCEPT !.cycles[k].savedReadings = Append(@, ret.reading)], k)

\* GET /api/panels/:id after its await of storage.getPanelDetail: the
\* handler writes the last polled levels (ret.sensor) into currentReading
\* and sends the detail.  MemStorage.getPanelDetail returns the reading
\* object that its map holds, so the assignments change the stored reading;
\* DbStorage returns a row fetched for the call.
PanelDetailHandler(w, ret) ==
    IF ret.op = "getPanelDetail" /\ ret.kind = "value" /\ ret.reading # NoReading
    THEN LET currentReading == [ret.reading EXCEPT
                                  !.dustLevel = ret.sensor.dustLevel,
                                  !.energyOutput = ret.sensor.energyOutput]
         IN  [w EXCEPT !.returned[Len(w.returned)].reading = currentReading,
                       !.memStorage.sensorReadings =
                           IF ret.via = "mem"
                           THEN (@ \ {ret.reading}) \cup {currentReading}
                           ELSE @]
    ELSE w

\* A call of the delegator settles: its caller goes on.
Complete(w, ret) ==
    LET w1 == [w EXCEPT !.returned = Append(@, ret),
                        !.calls[ret.call] = FreeCall]
    IN  IF ret.caller > 0 THEN CycleResume(w1, ret) ELSE PanelDetailHandler(w1, ret)

\* The operation of call c executed by the MemStorage instance.
MemServe(w, c, call, invokedIn, fellBack) ==
    LET insertReading == InsertReadingOf(call.panelId, call.sensor)
        id == <<"mem", Cardinality(w.memStorage.sensorReadings) + 1>>
        m1 == IF call.op = "createReading"
              THEN MemCreateReading(w.memStorage, id, insertReading)
              ELSE w.memStorage
        ret == [NoReturn EXCEPT
                  !.call = c, !.op = call.op, !.panelId = call.panelId,
                  !.sensor = call.sensor, !.caller = call.caller,
                  !.invokedIn = invokedIn, !.via = "mem", !.kind = "value",
                  !.fellBack = fellBack,
                  !.reading = IF call.op = "createReading"
                              THEN ReadingOf(id, insertReading)
                              ELSE IF call.op = "getPanelDetail"
                              THEN MemCurrentReading(m1, call.panelId)
                              ELSE NoReading,
                  !.score = IF call.op = "getPanelById"
                            THEN MemGetPanelById(m1, call.panelId) ELSE Undefined,
                  !.readings = IF call.op = "getReadingsByPanel"
                               THEN MemGetReadingsByPanel(m1, call.panelId) ELSE {},
                  !.factors = IF call.op = "calculateHealthScore"
                              THEN calculateHealthScore(ReadingOf(<<"none", 0>>, insertReading))
                              ELSE NoFactors]
    IN  Complete([w EXCEPT !.memStorage = m1], ret)

\* A wrapper that takes a durable success as the recovery of the database.
WrappedOnSuccessRecovers(w, c, ret) ==
    Complete([w EXCEPT !.dbFailureCount = 0,
                       !.connStreak = 0,
                       !.usingMemStorage = FALSE,
                       !.activeStorage = "proxy"], ret)

\* A wrapper that forgets to reset the counter on success.
WrappedOnSuccessNoReset(w, c, ret) ==
    Complete([w EXCEPT !.connStreak = 0], ret)

\* Lines 540-543 of the wrapped method: the durable call returned.
WrappedOnSuccess(w, c, ret) ==
    Complete([w EXCEPT !.dbFailureCount = 0,
                       !.connStreak = 0], ret)

\* The threshold test written with > instead of >=.
CountConnectionFailureLate(w) ==
    LET count == w.dbFailureCount + 1
    IN  IF count > MAX_DB_FAILURES
        THEN [w EXCEPT !.dbFailureCount = count,
                       !.usingMemStorage = TRUE,
                       !.activeStorage = "mem"]
        ELSE [w EXCEPT !.dbFailureCount = count]

\* A switch that copies the readings of the database into MemStorage.
CountConnectionFailureMigrates(w) ==
    LET count == w.dbFailureCount + 1
    IN  IF count >= MAX_DB_FAILURES
        THEN [w EXCEPT !.dbFailureCount = count,
                       !.usingMemStorage = TRUE,
                       !.activeStorage = "mem",
                       !.memStorage.sensorReadings = @ \cup w.db.sensorReadings]
        ELSE [w EXCEPT !.dbFailureCount = count]

\* An increment computed from a value of the counter read before the await:
\* it is lost when another durable call is in flight.
CountConnectionFailureLost(w) ==
    LET others == Cardinality({c \in DOMAIN w.calls : w.calls[c].st # "free"}) > 1
        count == IF others THEN w.dbFailureCount ELSE w.dbFailureCount + 1
    IN  IF count >= MAX_DB_FAILURES
        THEN [w EXCEPT !.dbFailureCount = count,
                       !.usingMemStorage = TRUE,
                       !.activeStorage = "mem"]
        ELSE [w EXCEPT !.dbFailureCount = count]

\* A switch that sets the flag and leaves the proxy active.
CountConnectionFailureKeepsProxy(w) ==
    LET count == w.dbFailureCount + 1
    IN  IF count >= MAX_DB_FAILURES
        THEN [w EXCEPT !.dbFailureCount = count,
                       !.usingMemStorage = TRUE]
        ELSE [w EXCEPT !.dbFailureCount = count]

\* Lines 557-564: count the connectivity failure and switch at the threshold.
CountConnectionFailure(w) ==
    LET count == w.dbFailureCount + 1
    IN  IF count >= MAX_DB_FAILURES
        THEN [w EXCEPT !.dbFailureCount = count,
                       !.usingMemStorage = TRUE,
                       !.activeStorage = "mem"]
        ELSE [w EXCEPT !.dbFailureCount = count]

\* The error of a call as it is thrown to the caller.
Thrown(c, call, message) ==
    [NoReturn EXCEPT
       !.call = c, !.op = call.op, !.panelId = call.panelId,
       !.sensor = call.sensor, !.caller = call.caller,
       !.invokedIn = "DURABLE_ACTIVE", !.via = "db",
       !.kind = "throw", !.error = message]

\* A catch block that switches at the threshold but throws the error
\* that reached it.
WrappedOnErrorThrowsAtThreshold(w, c, message) ==
    LET call == w.calls[c]
        w1 == [CountConnectionFailure(w) EXCEPT
                 !.connStreak = @ + 1,
                 !.reachedThree = @ \/ w.connStreak + 1 >= 3]
    IN  IF isConnectionError(message)
        THEN IF w1.usingMemStorage /\ ~w.usingMemStorage
             THEN Complete(w1, Thrown(c, call, message))
             ELSE MemServe(w1, c, call, "DURABLE_ACTIVE", TRUE)
        ELSE Complete(w, Thrown(c, call, message))

\* A catch block that counts every error, whatever its class.
WrappedOnErrorCountsAll(w, c, message) ==
    LET call == w.calls[c]
    IN  IF isConnectionError(message)
        THEN MemServe([CountConnectionFailure(w) EXCEPT
                         !.connStreak = @ + 1,
                         !.reachedThree = @ \/ w.connStreak + 1 >= 3],
                      c, call, "DURABLE_ACTIVE", TRUE)
        ELSE Complete(CountConnectionFailure(w), Thrown(c, call, message))

\* A fallback that answers with the row the durable insert already committed
\* instead of executing the operation again.
WrappedOnErrorKeepsInserted(w, c, message) ==
    LET call == w.calls[c]
        w1 == [CountConnectionFailure(w) EXCEPT
                 !.connStreak = @ + 1,
                 !.reachedThree = @ \/ w.connStreak + 1 >= 3]
    IN  IF isConnectionError(message)
        THEN IF call.st = "update"
             THEN Complete(w1, [NoReturn EXCEPT
                      !.call = c, !.op = call.op, !.panelId = call.panelId,
                      !.sensor = call.sensor, !.caller = call.caller,
                      !.invokedIn = "DURABLE_ACTIVE", !.via = "db",
                      !.kind = "value", !.fellBack = TRUE,
                      !.reading = ReadingOf(<<"db", call.rid>>,
                                            InsertReadingOf(call.panelId, call.sensor))])
             ELSE MemServe(w1, c, call, "DURABLE_ACTIVE", TRUE)
        ELSE Complete(w, Thrown(c, call, message))

\* Lines 544-570 of the wrapped method: the durable call threw.
WrappedOnError(w, c, message) ==
    LET call == w.calls[c]
    IN  IF isConnectionError(message)
        THEN MemServe([CountConnectionFailure(w) EXCEPT
                         !.connStreak = @ + 1,
                         !.reachedThree = @ \/ w.connStreak + 1 >= 3],
                      c, call, "DURABLE_ACTIVE", TRUE)
        ELSE Complete(w, Thrown(c, call, message))

\* A method of the delegator is called: this.activeStorage.<op>(...args),
\* where activeStorage is the MemStorage instance or the proxy around
\* DbStorage (lines 530-575).
Invoke(w, call) ==
    LET c == w.nextCall
        w1 == [w EXCEPT !.nextCall = c + 1]
        state == DelegatorState(dbStorage, w.usingMemStorage)
        insertReading == InsertReadingOf(call.panelId, call.sensor)
    IN  IF w.activeStorage = "mem" \/ w.usingMemStorage
        THEN MemServe(w1, c, call, state, FALSE)
        ELSE IF call.op = "calculateHealthScore"
        THEN \* DbStorage.calculateHealthScore is synchronous: the wrapper
             \* returns a promise and resumes after its await in this job.
             WrappedOnSuccess([w1 EXCEPT !.dbInvocations = @ + 1], c,
                 [NoReturn EXCEPT
                    !.call = c, !.op = call.op, !.panelId = call.panelId,
                    !.sensor = call.sensor, !.caller = call.caller,
                    !.invokedIn = state, !.via = "db", !.kind = "promise",
                    !.factors = calculateHealthScore(ReadingOf(<<"none", 0>>, insertReading))])
        ELSE [w1 EXCEPT !.dbInvocations = @ + 1,
                        !.calls[c] = [st |-> IF call.op = "createReading"
                                             THEN "insert" ELSE "query",
                                      op |-> call.op, panelId |-> call.panelId,
                                      sensor |-> call.sensor, caller |-> call.caller,
                                      rid |-> 0]]

\* The for loop of persistAllSensorData (lines 59-79), from the next panel
\* of the snapshot on.
CycleLoop(w, k) ==
    IF w.cycles[k].remaining = << >>
    THEN CycleFinish(w, k)
    ELSE LET sensorData == Head(w.cycles[k].remaining)
         IN  Invoke([w EXCEPT !.cycles[k].remaining = Tail(@),
                              !.cycles[k].attempted = @ + 1],
                    [op |-> "createReading", panelId |-> sensorData.panelId,
                     sensor |-> sensorData.sensor, caller |-> k])

\* ------------------------------------------------------------------------
\* DbStorage methods, one database round trip at a time
\* ------------------------------------------------------------------------
DbReturn(c, call) ==
    [NoReturn EXCEPT
       !.call = c, !.op = call.op, !.panelId = call.panelId,
       !.sensor = call.sensor, !.caller = call.caller,
       !.invokedIn = "DURABLE_ACTIVE", !.via = "db", !.kind = "value"]

\* The pending statement of durable call c is answered by the database.
\* createReading (lines 222-245) is an insert followed by
\* updatePanelHealthScore; the other methods are one select.
DbStorageStep(w, c) ==
    LET call == w.calls[c]
        id == <<"db", IF call.st = "insert"
                      THEN Cardinality(w.db.sensorReadings) + 1 ELSE call.rid>>
        insertReading == InsertReadingOf(call.panelId, call.sensor)
        reading == ReadingOf(id, insertReading)
        healthScore == calculateHealthScore(reading)
    IN  CASE call.st = "insert" ->
                LET d1 == DbInsertReading(w.db, id, insertReading)
                IN  IF ~isNaN(healthScore.totalScore) /\ isFinite(healthScore.totalScore)
                    THEN [w EXCEPT !.db = d1, !.calls[c].st = "update",
                                   !.calls[c].rid = id[2]]
                    ELSE WrappedOnSuccess([w EXCEPT !.db = d1], c,
                             [DbReturn(c, call) EXCEPT !.reading = reading])
          [] call.st = "update" ->
                WrappedOnSuccess(
                    [w EXCEPT !.db = DbUpdatePanelHealthScore(@, call.panelId, healthScore.totalScore)],
                    c, [DbReturn(c, call) EXCEPT !.reading = reading])
          [] call.st = "query" ->
                WrappedOnSuccess(w, c,
                    [DbReturn(c, call) EXCEPT
                       !.reading = IF call.op = "getPanelDetail"
                                   THEN DbGetLatestReadingByPanel(w.db, call.panelId)
                                   ELSE NoReading,
                       !.score = IF call.op = "getPanelById"
                                 THEN DbGetPanelById(w.db, call.panelId) ELSE Undefined,
                       !.readings = IF call.op = "getReadingsByPanel"
                                    THEN DbGetReadingsByPanel(w.db, call.panelId) ELSE {}])

\* ------------------------------------------------------------------------
\* Initial state: the delegator and the service after construction
\* ------------------------------------------------------------------------
\* A constructor that wraps a durable backend whatever useDatabase is.
InitDelegatorAlwaysWraps ==
    /\ dbStorage \in {"DbStorage", "null"}
    /\ activeStorage = "proxy"
    /\ dbFailureCount = 0
    /\ usingMemStorage = FALSE
    /\ memStorage = NewMemStorage
    /\ db = SeededDatabase
    /\ calls = [c \in CallIds |-> FreeCall]
    /\ nextCall = 1
    /\ wsServer = FALSE
    /\ persistInterval = "null"
    /\ isRunning = FALSE
    /\ isPersisting = FALSE
    /\ cycles = [k \in TickIds |-> NoCycle]
    /\ ticks = 0
    /\ returned = << >>
    /\ connStreak = 0
    /\ reachedThree = FALSE
    /\ dbInvocations = 0
    /\ snapshotsRead = 0
    /\ skippedTicks = 0
    /\ broadcasts = << >>

InitDelegator ==
    /\ dbStorage \in {"DbStorage", "null"}
    /\ activeStorage = IF dbStorage = "DbStorage" THEN "proxy" ELSE "mem"
    /\ dbFailureCount = 0
    /\ usingMemStorage = FALSE
    /\ memStorage = NewMemStorage
    /\ db = SeededDatabase
    /\ calls = [c \in CallIds |-> FreeCall]
    /\ nextCall = 1
    /\ wsServer = FALSE
    /\ persistInterval = "null"
    /\ isRunning = FALSE
    /\ isPersisting = FALSE
    /\ cycles = [k \in TickIds |-> NoCycle]
    /\ ticks = 0
    /\ returned = << >>
    /\ connStreak = 0
    /\ reachedThree = FALSE
    /\ dbInvocations = 0
    /\ snapshotsRead = 0
    /\ skippedTicks = 0
    /\ broadcasts = << >>

Init ==
    /\ InitDelegator
    /\ InitTransport
    /\ InitScore
    /\ InitCatalog
    /\ InitTilt
    /\ InitAlerts
    /\ InitFaults

\* ------------------------------------------------------------------------
\* Actions
\* ------------------------------------------------------------------------
InFlight == {c \in CallIds : calls[c].st # "free"}

RequestPanels == 1..MathMin(MaxRequestPanels, NumPanels)

\* What HTTP handlers ask of the delegator.
HandlerRequests ==
    [op : {"createReading"}, panelId : RequestPanels, sensor : SensorReadouts]
    \cup [op : {"getPanelById", "getReadingsByPanel"}, panelId : RequestPanels, sensor : {NoSensor}]
    \cup [op : {"calculateHealthScore"}, panelId : {1}, sensor : SensorReadouts]

\* A request handler calls a method of the delegator.
HandlerCall(request) ==
    /\ nextCall <= MaxCalls
    /\ activeStorage = "proxy" => dbInvocations < MaxDurableCalls
    /\ Cardinality(InFlight) < MaxInFlight
    /\ Install(Invoke(World, [op |-> request.op, panelId |-> request.panelId,
                              sensor |-> request.sensor, caller |-> 0]))
    /\ UNCHANGED <<dbStorage, wsServer, persistInterval, isRunning, ticks,
                   snapshotsRead, skippedTicks>>
    /\ UNCHANGED restOfService

\* The database answers the pending statement of durable call c.
DbStepOk(c) ==
    /\ calls[c].st # "free"
    /\ Install(DbStorageStep(World, c))
    /\ UNCHANGED <<dbStorage, wsServer, persistInterval, isRunning, ticks,
                   snapshotsRead, skippedTicks>>
    /\ UNCHANGED restOfService

\* The pending statement of durable call c fails with an error.
DbStepFail(c, message) ==
    /\ calls[c].st # "free"
    /\ Install(WrappedOnError(World, c, message))
    /\ UNCHANGED <<dbStorage, wsServer, persistInterval, isRunning, ticks,
                   snapshotsRead, skippedTicks>>
    /\ UNCHANGED restOfService

\* AutoPersistService.setWebSocketServer
SetWebSocketServer ==
    /\ ~wsServer
    /\ wsServer' = TRUE
    /\ returned' = << >>
    /\ UNCHANGED <<dbStorage, activeStorage, dbFailureCount, usingMemStorage,
                   memStorage, db, calls, nextCall, persistInterval, isRunning,
                   isPersisting, cycles, ticks, connStreak, reachedThree,
                   dbInvocations, snapshotsRead, skippedTicks, broadcasts>>
    /\ UNCHANGED restOfServer

\* AutoPersistService.start
Start ==
    /\ ~isRunning
    /\ isRunning' = TRUE
    /\ persistInterval' = "set"
    /\ returned' = << >>
    /\ UNCHANGED <<dbStorage, activeStorage, dbFailureCount, usingMemStorage,
                   memStorage, db, calls, nextCall, wsServer, isPersisting,
                   cycles, ticks, connStreak, reachedThree, dbInvocations,
                   snapshotsRead, skippedTicks, broadcasts>>
    /\ UNCHANGED restOfServer

\* AutoPersistService.stop
Stop ==
    /\ isRunning
    /\ persistInterval' = "null"
    /\ isRunning' = FALSE
    /\ returned' = << >>
    /\ UNCHANGED <<dbStorage, activeStorage, dbFailureCount, usingMemStorage,
                   memStorage, db, calls, nextCall, wsServer, isPersisting,
                   cycles, ticks, connStreak, reachedThree, dbInvocations,
                   snapshotsRead, skippedTicks, broadcasts>>
    /\ UNCHANGED restOfServer

\* What getAllSensorData may return: a record for each of the first n panels.
Snapshots ==
    UNION { { s \in [1..n -> [panelId : PanelIds, sensor : SensorReadouts]] :
                \A i \in 1..n : s[i].panelId = i } :
            n \in 0..MathMin(MaxSnapshot, NumPanels) }

\* A timer handler without the re-entrancy guard.
GuardSkipsNever(persisting) == FALSE

\* The re-entrancy guard of the timer handler (lines 30-33).
GuardSkips(persisting) == persisting

\* The callback of setInterval (lines 29-43) with the snapshot that
\* getAllSensorData returns when the cycle runs.
Tick(snapshot) ==
    /\ persistInterval = "set"
    /\ ticks < MaxTicks
    /\ ticks' = ticks + 1
    /\ IF GuardSkips(isPersisting)
       THEN /\ skippedTicks' = skippedTicks + 1
            /\ returned' = << >>
            /\ UNCHANGED <<activeStorage, dbFailureCount, usingMemStorage,
                           memStorage, db, calls, nextCall, isPersisting, cycles,
                           connStreak, reachedThree, dbInvocations,
                           snapshotsRead, broadcasts, wire, broadcastOutcome>>
       ELSE LET k == ticks + 1
                w0 == [World EXCEPT
                         !.isPersisting = TRUE,
                         !.cycles[k] = [NoCycle EXCEPT !.st = "running",
                                                       !.size = Len(snapshot),
                                                       !.remaining = snapshot]]
            IN  /\ nextCall + Len(snapshot) - 1 <= MaxCalls
                /\ activeStorage = "proxy" =>
                       dbInvocations + Len(snapshot) <= MaxDurableCalls
                /\ snapshotsRead' = snapshotsRead + 1
                /\ skippedTicks' = skippedTicks
                /\ IF Len(snapshot) = 0
                   THEN Install([w0 EXCEPT !.cycles[k].st = "done",
                                           !.isPersisting = FALSE])
                   ELSE Install(CycleLoop(w0, k))
    /\ UNCHANGED <<dbStorage, wsServer, persistInterval, isRunning>>
    /\ UNCHANGED restOfService

\* The server answering HTTP requests, the ingestion service not started.
Next ==
    \/ \E request \in HandlerRequests : HandlerCall(request)
    \/ \E c \in CallIds : DbStepOk(c)
    \/ \E c \in CallIds, message \in ErrorMessages : DbStepFail(c, message)

Spec == Init /\ [][Next]_vars

\* The ingestion service with the delegator and the database.
NextIngest ==
    \/ \E c \in CallIds : DbStepOk(c)
    \/ \E c \in CallIds, message \in ErrorMessages : DbStepFail(c, message)
    \/ SetWebSocketServer
    \/ Start
    \/ Stop
    \/ \E snapshot \in Snapshots : Tick(snapshot)

SpecIngest == Init /\ [][NextIngest]_vars

\* ------------------------------------------------------------------------
\* Properties of the failover delegator (specification Spec)
\* ------------------------------------------------------------------------
Durable == dbStorage = "DbStorage"

\* The error messages that the delegator classifies as connectivity failures.
ConnectivityMessages == {message \in ErrorMessages : isConnectionError(message)}

\* C1: a delegator built with a durable backend is in DURABLE_ACTIVE until
\* three connectivity failures of durable calls have completed with no
\* durable success between them, and in FALLBACK_ACTIVE from the completion
\* of the third one on; one or two such failures do not switch it.
SwitchAtThirdConsecutiveFailure ==
    Durable =>
        /\ (DelegatorState(dbStorage, usingMemStorage) = "FALLBACK_ACTIVE") <=> reachedThree
        /\ (connStreak < 3 /\ ~reachedThree) =>
               DelegatorState(dbStorage, usingMemStorage) = "DURABLE_ACTIVE"
        /\ (nextCall = 1) => DelegatorState(dbStorage, usingMemStorage) = "DURABLE_ACTIVE"

\* The third consecutive failure has just completed and switched the delegator.
SwitchAtThirdConsecutiveFailureWitness ==
    /\ Durable
    /\ connStreak = 3
    /\ usingMemStorage
    /\ Len(returned) = 1 /\ returned[1].fellBack

\* C2: once the delegator is in FALLBACK_ACTIVE it stays there, no method of
\* DbStorage is invoked any more, and every call made from then on is
\* executed by MemStorage within the job that makes it.
FallbackIsPermanent ==
    [][usingMemStorage =>
          /\ usingMemStorage'
          /\ activeStorage' = "mem"
          /\ dbInvocations' = dbInvocations
          /\ \A c \in CallIds : calls[c].st = "free" => calls'[c].st = "free"
          /\ nextCall' > nextCall =>
                /\ Len(returned') = 1
                /\ returned'[1].call = nextCall
                /\ returned'[1].invokedIn = "FALLBACK_ACTIVE"
                /\ returned'[1].via = "mem"]_vars

\* A call made after the switch has returned.
FallbackIsPermanentWitness ==
    /\ Len(returned) = 1
    /\ returned[1].invokedIn = "FALLBACK_ACTIVE"
    /\ returned[1].via = "mem"
    /\ dbInvocations = 3

\* What MemStorage returns for the operation of call when it has brought the
\* instance from m0 to m1.
IsMemResult(r, call, m0, m1) ==
    /\ r.op = call.op /\ r.panelId = call.panelId /\ r.sensor = call.sensor
    /\ r.via = "mem" /\ r.kind = "value"
    /\ CASE call.op = "createReading" ->
                /\ r.reading \notin m0.sensorReadings
                /\ m1.sensorReadings = m0.sensorReadings \cup {r.reading}
                /\ r.reading.panelId = call.panelId
                /\ r.reading.energyOutput = call.sensor.energyOutput
                /\ r.reading.temperature = call.sensor.temperature
                /\ r.reading.dustLevel = call.sensor.dustLevel
         [] call.op = "getPanelById" ->
                /\ m1 = m0
                /\ r.score = m0.panels[call.panelId]
         [] call.op = "getReadingsByPanel" ->
                /\ m1 = m0
                /\ r.readings = {x \in m0.sensorReadings : x.panelId = call.panelId}
         [] OTHER -> FALSE

\* C3: when a durable call fails with a connectivity-classified error, the
\* same operation with the same arguments is executed by MemStorage and its
\* result is what the caller gets, at the first, the second and the
\* threshold-reaching failure and for calls still in flight after the
\* switch; no error thrown to a caller is of the connectivity class.
ConnectivityFailureFallsBack ==
    [][/\ \A c \in CallIds, message \in ConnectivityMessages :
             (/\ calls[c].st # "free" /\ calls'[c].st = "free"
              /\ DbStepFail(c, message)) =>
                 /\ Len(returned') = 1
                 /\ returned'[1].call = c
                 /\ IsMemResult(returned'[1], calls[c], memStorage, memStorage')
       /\ \A i \in 1..Len(returned') :
             returned'[i].kind = "throw" => ~isConnectionError(returned'[i].error)]_vars

\* The threshold-reaching failure of a createReading has fallen back.
ConnectivityFailureFallsBackWitness ==
    /\ Len(returned) = 1
    /\ returned[1].fellBack
    /\ returned[1].op = "createReading"
    /\ returned[1].reading \in memStorage.sensorReadings
    /\ dbFailureCount = 3

\* C4: in DURABLE_ACTIVE, a durable call that fails with an error that is
\* not connectivity-classified throws that error to the caller, MemStorage
\* is not invoked, the failure counter keeps its value and the delegator
\* stays in DURABLE_ACTIVE.
OtherFailureIsRethrown ==
    [][\A c \in CallIds, message \in ErrorMessages \ ConnectivityMessages :
          (/\ ~usingMemStorage
           /\ calls[c].st # "free" /\ calls'[c].st = "free"
           /\ DbStepFail(c, message)) =>
              /\ Len(returned') = 1
              /\ returned'[1].call = c
              /\ returned'[1].kind = "throw"
              /\ returned'[1].error = message
              /\ returned'[1].via = "db"
              /\ memStorage' = memStorage
              /\ dbFailureCount' = dbFailureCount
              /\ ~usingMemStorage'
              /\ activeStorage' = "proxy"]_vars

\* A non-connectivity error was thrown while two failures were counted.
OtherFailureIsRethrownWitness ==
    /\ Len(returned) = 1
    /\ returned[1].kind = "throw"
    /\ returned[1].error = MsgDuplicateKey
    /\ dbFailureCount = 2
    /\ ~usingMemStorage

\* C6: with several durable calls in flight and their responses arriving in
\* any order, each failed call counts, tests and switches in one step: the
\* counter is the number of connectivity failures completed since the last
\* durable success (no increment is lost), the delegator switches in the
\* very step that brings the counter from 2 to 3, never in another step and
\* never back, and flag and active backend change together.
SwitchIsIndivisible ==
    [][Durable =>
          /\ dbFailureCount' = connStreak'
          /\ dbFailureCount' \in {dbFailureCount, dbFailureCount + 1, 0}
          /\ usingMemStorage' <=> activeStorage' = "mem"
          /\ usingMemStorage' # usingMemStorage =>
                /\ ~usingMemStorage /\ usingMemStorage'
                /\ dbFailureCount = MAX_DB_FAILURES - 1
                /\ dbFailureCount' = MAX_DB_FAILURES
          /\ (dbFailureCount < MAX_DB_FAILURES /\ dbFailureCount' >= MAX_DB_FAILURES) =>
                usingMemStorage'
          /\ usingMemStorage => usingMemStorage']_vars

\* The third failure switched the delegator while another durable call was
\* still in flight.
SwitchIsIndivisibleWitness ==
    /\ usingMemStorage
    /\ dbFailureCount = 3
    /\ InFlight # {}
    /\ Len(returned) = 1 /\ returned[1].fellBack

\* C7: calling calculateHealthScore on the delegator leaves the failure
\* counter, the flag and the active backend as they were, in every state of
\* the delegator, and returns the health-score breakdown of the reading.
CalculateHealthScoreChangesNothing ==
    [][\A request \in HandlerRequests :
          (request.op = "calculateHealthScore" /\ HandlerCall(request)) =>
              /\ dbFailureCount' = dbFailureCount
              /\ activeStorage' = activeStorage
              /\ usingMemStorage' = usingMemStorage
              /\ Len(returned') = 1
              /\ returned'[1].factors =
                    calculateHealthScore(ReadingOf(<<"none", 0>>,
                        InsertReadingOf(request.panelId, request.sensor)))]_vars

\* The first call, a createReading, failed with a connectivity error and was
\* counted; the second call, calculateHealthScore through the proxy, has
\* returned and the counter is zero.
CalculateHealthScoreChangesNothingWitness ==
    /\ Len(returned) = 1
    /\ returned[1].op = "calculateHealthScore"
    /\ returned[1].call = 2
    /\ returned[1].invokedIn = "DURABLE_ACTIVE"
    /\ returned[1].kind = "promise"
    /\ memStorage.sensorReadings # {}
    /\ dbInvocations = 2
    /\ InFlight = {}
    /\ dbFailureCount = 0

\* C8: from the cutover on, every call is answered from MemStorage alone:
\* the rows of the database stay where they are, none of them is copied to
\* MemStorage, calls made in FALLBACK_ACTIVE leave the database untouched,
\* and no query made in FALLBACK_ACTIVE returns a row of the database.
FallbackServesFromMemoryOnly ==
    [][/\ db.sensorReadings \subseteq db'.sensorReadings
       /\ usingMemStorage' => memStorage'.sensorReadings \cap db'.sensorReadings = {}
       /\ (usingMemStorage /\ nextCall' > nextCall) => db' = db
       /\ \A i \in 1..Len(returned') :
             LET r == returned'[i]
             IN  r.invokedIn = "FALLBACK_ACTIVE" =>
                    /\ r.via = "mem"
                    /\ r.readings \subseteq memStorage'.sensorReadings
                    /\ r.readings \cap db'.sensorReadings = {}
                    /\ r.op = "createReading" =>
                          /\ r.reading \in memStorage'.sensorReadings
                          /\ r.reading \notin db'.sensorReadings
                    /\ r.op = "getPanelById" =>
                          r.score = memStorage'.panels[r.panelId]]_vars

\* A reading was created in the database while DURABLE_ACTIVE, and a query
\* for the readings of its panel made after the cutover does not return it.
FallbackServesFromMemoryOnlyWitness ==
    /\ usingMemStorage
    /\ InFlight = {}
    /\ \E x \in db.sensorReadings :
          /\ x.panelId = 1
          /\ db.panels[1] = calculateHealthScore(x).totalScore
          /\ db.panels[1] # memStorage.panels[1]
    /\ Len(returned) = 1
    /\ returned[1].op = "getReadingsByPanel"
    /\ returned[1].panelId = 1
    /\ returned[1].invokedIn = "FALLBACK_ACTIVE"
    /\ returned[1].readings = {}

\* What getPanelById(id) returns when it is called in the current state and
\* the database, if it is asked, answers at once.
ReadBack(id) ==
    LET w1 == Invoke(World, [op |-> "getPanelById", panelId |-> id,
                             sensor |-> NoSensor, caller |-> 0])
        w2 == IF Len(w1.returned) = 1 THEN w1 ELSE DbStorageStep(w1, nextCall)
    IN  w2.returned[1].score

\* C10: when createReading has returned a reading through the delegator and
\* no other call is in flight, reading the panel back returns the totalScore
\* that calculateHealthScore computes for that reading, whenever that score
\* is finite, in each state of the delegator.
RoundTripHealthScore ==
    (/\ Len(returned) = 1
     /\ returned[1].op = "createReading"
     /\ returned[1].kind = "value"
     /\ returned[1].caller = 0
     /\ InFlight = {}
     /\ nextCall <= MaxCalls) =>
        LET healthScore == calculateHealthScore(returned[1].reading)
        IN  (~isNaN(healthScore.totalScore) /\ isFinite(healthScore.totalScore)) =>
                ReadBack(returned[1].panelId) = healthScore.totalScore

\* A createReading made in DURABLE_ACTIVE was served by MemStorage and the
\* delegator still reads from the database.
RoundTripHealthScoreWitness ==
    /\ Len(returned) = 1
    /\ returned[1].op = "createReading"
    /\ returned[1].kind = "value"
    /\ returned[1].fellBack
    /\ ~usingMemStorage
    /\ InFlight = {}
    /\ nextCall <= MaxCalls
    /\ memStorage.panels[returned[1].panelId] =
          calculateHealthScore(returned[1].reading).totalScore
    /\ db.panels[returned[1].panelId] = InitialHealthScore

\* ------------------------------------------------------------------------
\* Properties of the ingestion service (specification SpecIngest)
\* ------------------------------------------------------------------------
RunningCycles == {k \in TickIds : cycles[k].st = "running"}

\* C5: at most one ingestion cycle is running at any time; a tick that fires
\* while a cycle is running reads no snapshot, makes no call, stores and
\* broadcasts nothing, and the cycle of a tick that was skipped never runs.
OneCycleAtATime ==
    [][/\ Cardinality({k \in TickIds : cycles'[k].st = "running"}) <= 1
       /\ (ticks' = ticks + 1 /\ RunningCycles # {}) =>
             /\ skippedTicks' = skippedTicks + 1
             /\ snapshotsRead' = snapshotsRead
             /\ nextCall' = nextCall
             /\ calls' = calls
             /\ memStorage' = memStorage
             /\ db' = db
             /\ broadcasts' = broadcasts
             /\ cycles' = cycles
       /\ \A k \in TickIds :
             (k <= ticks /\ cycles[k].st = "none") => cycles'[k].st = "none"]_vars

\* The second tick fired while the first cycle was waiting for the database
\* and was skipped; the first cycle has finished since and the skipped one
\* has not run.
OneCycleAtATimeWitness ==
    /\ ticks = 2
    /\ skippedTicks = 1
    /\ cycles[1].st = "done"
    /\ Len(cycles[1].savedReadings) = 2
    /\ cycles[2] = NoCycle
    /\ snapshotsRead = 1

\* C9: when createReading throws for one panel of a cycle, the cycle goes
\* on with the next panel in the same job; a finished cycle has attempted
\* every panel of its snapshot; the message it broadcasts is computed from
\* the readings that createReading returned, each of them stored in a
\* backend; and the failure leaves the timer set and the guard released at
\* the end of the cycle.
PanelFailureDoesNotAbortBatch ==
    [][\A k \in TickIds :
          /\ cycles'[k].st = "done" =>
                /\ cycles'[k].attempted = cycles'[k].size
                /\ Len(cycles'[k].savedReadings) + cycles'[k].failed = cycles'[k].size
                /\ \A i \in 1..Len(cycles'[k].savedReadings) :
                      cycles'[k].savedReadings[i] \in
                          memStorage'.sensorReadings \cup db'.sensorReadings
          /\ cycles'[k].failed > cycles[k].failed =>
                /\ persistInterval' = persistInterval
                /\ isRunning' = isRunning
                /\ \/ cycles'[k].attempted > cycles[k].attempted
                   \/ cycles'[k].attempted = cycles'[k].size
          /\ (cycles[k].st = "running" /\ cycles'[k].st = "done") =>
                /\ ~isPersisting'
                /\ \A i \in 1..Len(broadcasts') :
                      broadcasts'[i].cycle = k =>
                         /\ broadcasts'[i].totalPanels = cycles'[k].size - cycles'[k].failed
                         /\ broadcasts'[i].totalEnergyOutput =
                               SumEnergyOutput(cycles'[k].savedReadings)
                         /\ broadcasts'[i].latestReadings =
                               SubSeq(cycles'[k].savedReadings, 1,
                                      MathMin(10, Len(cycles'[k].savedReadings)))]_vars

\* The first panel of a cycle failed, the second was saved and broadcast,
\* and a later tick has started the next cycle.
PanelFailureDoesNotAbortBatchWitness ==
    /\ cycles[1].st = "done"
    /\ cycles[1].failed = 1
    /\ Len(cycles[1].savedReadings) = 1
    /\ cycles[1].savedReadings[1].panelId = 2
    /\ Len(broadcasts) > 0
    /\ broadcasts[1].cycle = 1
    /\ broadcasts[1].totalPanels = 1
    /\ cycles[2].st = "running"

\* ------------------------------------------------------------------------
\* RealtimeWebSocketServer (src/websocket-server.ts)
\* ------------------------------------------------------------------------
Null == [type |-> "null", panelId |-> 0]

\* ws.send: a socket that is not open sends nothing.
wsSend(log, state, ws, text) ==
    IF state[ws] = "OPEN" THEN Append(log, [to |-> ws, text |-> text]) ELSE log

ConnectedMessage ==
    JSONstringify([type |-> "connected", panelId |-> 0])

\* What clients send: a subscription, another well-formed message, the
\* JSON text null, and a text that is not JSON.
ClientTexts ==
    { JSONstringify([type |-> "subscribe", panelId |-> 1]),
      JSONstringify([type |-> "ping", panelId |-> 0]),
      JSONstringify(Null),
      <<"{subscribe">> }

\* What the server broadcasts.
Payloads == { [type |-> "aggregatedUpdate", panelId |-> 0] }

\* handleClientMessage (lines 46-54); reading data.type of null throws,
\* and the throw is caught by the message listener.
handleClientMessage(log, state, ws, data) ==
    IF data = Null THEN log
    ELSE IF data.type = "subscribe"
    THEN wsSend(log, state, ws,
                JSONstringify([type |-> "subscribed", panelId |-> data.panelId]))
    ELSE log

\* A 'connection' listener that registers the socket and sends it nothing.
ConnectWithoutConfirmation(ws) ==
    /\ readyState[ws] = "none"
    /\ Len(wire) < MaxSent
    /\ readyState' = [readyState EXCEPT ![ws] = "OPEN"]
    /\ clients' = clients \cup {ws}
    /\ wire' = wire
    /\ UNCHANGED <<delegatorVars, scoreVars, catalogVars, tiltVars, alertVars, faultVars>>

\* The 'connection' listener (lines 14-38).
Connect(ws) ==
    /\ readyState[ws] = "none"
    /\ Len(wire) < MaxSent
    /\ readyState' = [readyState EXCEPT ![ws] = "OPEN"]
    /\ clients' = clients \cup {ws}
    /\ wire' = wsSend(wire, readyState', ws, ConnectedMessage)
    /\ UNCHANGED <<delegatorVars, scoreVars, catalogVars, tiltVars, alertVars, faultVars>>

\* The 'message' listener of a socket (lines 18-25).
ClientMessage(ws, text) ==
    /\ readyState[ws] \in {"OPEN", "CLOSING"}
    /\ Len(wire) < MaxSent
    /\ wire' = IF IsJSON(text)
               THEN handleClientMessage(wire, readyState, ws, JSONparse(text))
               ELSE wire
    /\ UNCHANGED <<clients, readyState>>
    /\ UNCHANGED <<delegatorVars, scoreVars, catalogVars, tiltVars, alertVars, faultVars>>

\* The closing handshake of a socket begins: it is CLOSING until its
\* 'close' event.
BeginClose(ws) ==
    /\ readyState[ws] = "OPEN"
    /\ readyState' = [readyState EXCEPT ![ws] = "CLOSING"]
    /\ UNCHANGED <<clients, wire>>
    /\ UNCHANGED <<delegatorVars, scoreVars, catalogVars, tiltVars, alertVars, faultVars>>

\* A 'close' listener that leaves the socket in the registry.
OnCloseKeeps(registry, ws) == registry

\* The 'close' listener of a socket (lines 27-30).
OnClose(registry, ws) == registry \ {ws}

\* A socket closes and its 'close' event is emitted.
Close(ws) ==
    /\ readyState[ws] \in {"OPEN", "CLOSING"}
    /\ readyState' = [readyState EXCEPT ![ws] = "CLOSED"]
    /\ clients' = OnClose(clients, ws)
    /\ UNCHANGED wire
    /\ UNCHANGED <<delegatorVars, scoreVars, catalogVars, tiltVars, alertVars, faultVars>>

\* RealtimeWebSocketServer.broadcast (lines 86-94).
Broadcast(data) ==
    /\ Len(wire) + Cardinality(clients) <= MaxSent
    /\ wire' = SendToEach(wire, BroadcastTargets(clients, readyState), JSONstringify(data))
    /\ broadcastOutcome' = IF SendThrows(BroadcastTargets(clients, readyState))
                           THEN "threw" ELSE "returned"
    /\ UNCHANGED <<clients, readyState, sendFails>>
    /\ UNCHANGED <<delegatorVars, scoreVars, catalogVars, tiltVars, alertVars>>

\* RealtimeWebSocketServer.getConnectedClientsCount (lines 96-98).
getConnectedClientsCount == Cardinality(clients)

NextTransport ==
    \/ \E ws \in Sockets : Connect(ws)
    \/ \E ws \in Sockets, text \in ClientTexts : ClientMessage(ws, text)
    \/ \E ws \in Sockets : BeginClose(ws)
    \/ \E ws \in Sockets : Close(ws)
    \/ \E data \in Payloads : Broadcast(data)

SpecTransport == Init /\ [][NextTransport]_vars

\* ------------------------------------------------------------------------
\* Properties of the transport (specification SpecTransport)
\* ------------------------------------------------------------------------
\* The texts sent to socket ws, in order.
RECURSIVE SentTo(_, _)
SentTo(log, ws) ==
    IF log = << >> THEN << >>
    ELSE IF Head(log).to = ws
    THEN <<Head(log).text>> \o SentTo(Tail(log), ws)
    ELSE SentTo(Tail(log), ws)

RegistryIsConnectedNotClosed ==
    /\ clients = {ws \in Sockets : readyState[ws] \in {"OPEN", "CLOSING"}}
    /\ getConnectedClientsCount =
          Cardinality({ws \in Sockets : readyState[ws] \in {"OPEN", "CLOSING"}})

\* Three sockets connected, one subscribed, one has closed, one is closing.
RegistryIsConnectedNotClosedWitness ==
    /\ readyState = <<"OPEN", "CLOSED", "CLOSING">>
    /\ getConnectedClientsCount = 2
    /\ \E i \in 1..Len(wire) :
          wire[i] = [to |-> 1, text |-> JSONstringify([type |-> "subscribed", panelId |-> 1])]

\* ------------------------------------------------------------------------
\* calculateHealthScore of the two backends on a reading of a bounded set
\* ------------------------------------------------------------------------
\* DbStorage.calculateHealthScore (src/db-storage.ts, lines 481-502).
DbCalculateHealthScore(reading) ==
    LET efficiency == safeValue(reading.efficiencyPercent, 50)
        dust == safeValue(reading.dustLevel, 5)
        temp == safeValue(reading.temperature, 25)
        efficiencyScore == 4 * efficiency
        dustScore == 30 * (10 - dust)
        tempDiff == MathAbs(temp - 25)
        temperatureScore == MathMax(0, 300 - tempDiff * 15)
        totalScore == MathRoundTenths(efficiencyScore + dustScore + temperatureScore)
    IN  [efficiencyScore |-> MathRoundTenths(safeValue(efficiencyScore, 200)),
         dustScore |-> MathRoundTenths(safeValue(dustScore, 150)),
         temperatureScore |-> MathRoundTenths(safeValue(temperatureScore, 150)),
         totalScore |-> MathMin(100, MathMax(0, safeValue(totalScore, 50)))]

NonFinite == {NaN, PosInfinity, NegInfinity}

\* Values of the three inputs: the ends and the inside of the nominal
\* ranges, values outside of them, and the non-finite numbers.
EfficiencyInputs == {0, 1, 25, 50, 99, 100} \cup {-40, 150} \cup NonFinite

DustInputs == (0..10) \cup {-5, 25} \cup NonFinite

TemperatureInputs == {-50, -10, 5, 24, 25, 26, 45, 46, 150} \cup {-60, 200} \cup NonFinite

ScoreInputs ==
    { [NoReading EXCEPT !.efficiencyPercent = e, !.dustLevel = d, !.temperature = t] :
        e \in EfficiencyInputs, d \in DustInputs, t \in TemperatureInputs }

InitScoreInput ==
    /\ InitDelegator
    /\ InitTransport
    /\ InitCatalog
    /\ InitTilt
    /\ InitAlerts
    /\ InitFaults
    /\ scoreInput \in ScoreInputs
    /\ memScore = NoFactors
    /\ dbScore = NoFactors

\* storage.calculateHealthScore(reading) on the in-memory backend.
MemCalculate ==
    /\ memScore' = calculateHealthScore(scoreInput)
    /\ UNCHANGED <<scoreInput, dbScore>>
    /\ UNCHANGED <<delegatorVars, transportVars, catalogVars, tiltVars, alertVars, faultVars>>

\* storage.calculateHealthScore(reading) on the durable backend.
DbCalculate ==
    /\ dbScore' = DbCalculateHealthScore(scoreInput)
    /\ UNCHANGED <<scoreInput, memScore>>
    /\ UNCHANGED <<delegatorVars, transportVars, catalogVars, tiltVars, alertVars, faultVars>>

NextScore == MemCalculate \/ DbCalculate

SpecScore == InitScoreInput /\ [][NextScore]_vars

\* ------------------------------------------------------------------------
\* Properties of the health score (specification SpecScore)
\* ------------------------------------------------------------------------
\* C13: the totalScore that either backend returns lies in [0, 100] for
\* every reading: inside the nominal ranges, outside of them, and with NaN
\* or an infinity in any of the three inputs.
TotalScoreStaysInRange ==
    /\ memScore # NoFactors =>
          (isFinite(memScore.totalScore) /\ memScore.totalScore \in 0..100)
    /\ dbScore # NoFactors =>
          (isFinite(dbScore.totalScore) /\ dbScore.totalScore \in 0..100)

\* Both backends have clamped a sum of 135 points to 100.
TotalScoreStaysInRangeWitness ==
    /\ scoreInput.efficiencyPercent = 150
    /\ scoreInput.dustLevel = -5
    /\ scoreInput.temperature = 25
    /\ memScore.efficiencyScore + memScore.dustScore + memScore.temperatureScore = 135
    /\ memScore.totalScore = 100
    /\ dbScore.totalScore = 100

\* The formula of the health score in exact arithmetic, in twentieths of a
\* point; round(x) is the largest integer not above x + 1/2.
ReferenceRound(twentieths) == (twentieths + 10) \div 20

ReferenceDefault(val, defaultVal) == IF val \in NonFinite THEN defaultVal ELSE val

ReferenceClamp(x) == IF x < 0 THEN 0 ELSE IF x > 100 THEN 100 ELSE x

ReferenceScore(reading) ==
    LET e == ReferenceDefault(reading.efficiencyPercent, 50)
        d == ReferenceDefault(reading.dustLevel, 5)
        t == ReferenceDefault(reading.temperature, 25)
        distance == IF t >= 25 THEN t - 25 ELSE 25 - t
        e20 == 8 * e
        d20 == 60 * (10 - d)
        t20 == IF 600 - 30 * distance > 0 THEN 600 - 30 * distance ELSE 0
    IN  [efficiencyScore |-> ReferenceRound(e20),
         dustScore |-> ReferenceRound(d20),
         temperatureScore |-> ReferenceRound(t20),
         totalScore |-> ReferenceClamp(ReferenceRound(e20 + d20 + t20))]

\* C14: what each backend returns for a reading is the reference formula of
\* that reading, so both return the same and a repeated call returns it
\* again; efficiency 100, dust 0, temperature 25 gives 40, 30, 30 and 100,
\* and a NaN efficiency gives efficiencyScore 20.
ScoreEqualsReferenceFormula ==
    /\ memScore # NoFactors => memScore = ReferenceScore(scoreInput)
    /\ dbScore # NoFactors => dbScore = ReferenceScore(scoreInput)
    /\ (memScore # NoFactors /\ dbScore # NoFactors) => memScore = dbScore
    /\ (/\ scoreInput.efficiencyPercent = 100
        /\ scoreInput.dustLevel = 0
        /\ scoreInput.temperature = 25) =>
          /\ memScore \in {NoFactors, [efficiencyScore |-> 40, dustScore |-> 30,
                                       temperatureScore |-> 30, totalScore |-> 100]}
          /\ dbScore \in {NoFactors, [efficiencyScore |-> 40, dustScore |-> 30,
                                      temperatureScore |-> 30, totalScore |-> 100]}
    /\ isNaN(scoreInput.efficiencyPercent) =>
          /\ memScore # NoFactors => memScore.efficiencyScore = 20
          /\ dbScore # NoFactors => dbScore.efficiencyScore = 20

\* Both backends have scored a reading whose efficiency is NaN and whose
\* sub-scores sum to a half point (20 + 15 + 28.5).
ScoreEqualsReferenceFormulaWitness ==
    /\ isNaN(scoreInput.efficiencyPercent)
    /\ scoreInput.dustLevel = 5
    /\ scoreInput.temperature = 26
    /\ memScore = [efficiencyScore |-> 20, dustScore |-> 15,
                   temperatureScore |-> 29, totalScore |-> 64]
    /\ dbScore = memScore

\* C15 as stated: efficiency 0, dust 10 and temperature 25 give totalScore 0.
WorstReadingScoresZero ==
    (/\ scoreInput.efficiencyPercent = 0
     /\ scoreInput.dustLevel = 10
     /\ scoreInput.temperature = 25
     /\ memScore # NoFactors) => memScore.totalScore = 0

\* C15: efficiency 0, dust 10 and temperature 25 give the sub-scores 0, 0
\* and 30, the temperature being the optimal one, and totalScore 30.
WorstReadingScoresThirty ==
    (/\ scoreInput.efficiencyPercent = 0
     /\ scoreInput.dustLevel = 10
     /\ scoreInput.temperature = 25
     /\ memScore # NoFactors) =>
        memScore = [efficiencyScore |-> 0, dustScore |-> 0,
                    temperatureScore |-> 30, totalScore |-> 30]

\* MemStorage has scored the reading with efficiency 0, dust 10 and
\* temperature 25.
WorstReadingScoresThirtyWitness ==
    /\ scoreInput.efficiencyPercent = 0
    /\ scoreInput.dustLevel = 10
    /\ scoreInput.temperature = 25
    /\ memScore # NoFactors
    /\ memScore.temperatureScore = 30

\* ---------------------------------------------------------------------
\* Recommendations: createRecommendation and getRecommendations of the
\* two backends.
\* ---------------------------------------------------------------------

Urgencies == {"high", "medium", "low"}
ImpactScores == {30, 70}

\* The literal urgencyOrder of the comparator.
urgencyOrder(u) == CASE u = "high" -> 3 [] u = "medium" -> 2 [] OTHER -> 1

\* The comparator handed to Array.prototype.sort: negative when a goes
\* first, positive when b goes first.
CompareRecommendations(a, b) ==
    LET urgencyDiff == urgencyOrder(b.urgency) - urgencyOrder(a.urgency)
    IN  IF urgencyDiff # 0 THEN urgencyDiff ELSE b.impactScore - a.impactScore

\* Array.prototype.sort is stable: x goes behind every element that does
\* not compare greater than it.
RECURSIVE InsertRecommendation(_, _)
InsertRecommendation(sorted, x) ==
    IF sorted = << >> THEN <<x>>
    ELSE LET last == sorted[Len(sorted)]
         IN  IF CompareRecommendations(last, x) <= 0
             THEN Append(sorted, x)
             ELSE Append(InsertRecommendation(SubSeq(sorted, 1, Len(sorted) - 1), x), last)

RECURSIVE SortRecommendations(_)
SortRecommendations(array) ==
    IF array = << >> THEN << >>
    ELSE InsertRecommendation(SortRecommendations(SubSeq(array, 1, Len(array) - 1)),
                              array[Len(array)])

MemGetRecommendations(map) == SortRecommendations(map)

\* select ... from recommendations order by timestamp desc: every order of
\* the rows in which the timestamps do not increase; rows of one timestamp
\* come in any order.
DbGetRecommendations(rows) ==
    {list \in [1..Cardinality(rows) -> rows] :
        /\ \A i, j \in DOMAIN list : i # j => list[i] # list[j]
        /\ \A i, j \in DOMAIN list : i < j => list[i].timestamp >= list[j].timestamp}

RecommendationsCreated == Len(memRecommendations) + Cardinality(dbRecommendations)

\* new Date() of a creation: the time of the latest row or a later one.
Timestamps(rows) ==
    LET latest == IF rows = {} THEN 1
                  ELSE CHOOSE t \in {r.timestamp : r \in rows} :
                           \A r \in rows : r.timestamp <= t
    IN  {latest, latest + 1}

MemCreateRecommendation(urgency, impactScore) ==
    /\ RecommendationsCreated < MaxRecommendations
    /\ memRecommendations' = Append(memRecommendations,
           [id |-> RecommendationsCreated + 1, urgency |-> urgency,
            impactScore |-> impactScore])
    /\ UNCHANGED <<dbRecommendations, memPanelMap, dbPanelRows, listed>>
    /\ UNCHANGED <<delegatorVars, transportVars, scoreVars, tiltVars, alertVars, faultVars>>

DbCreateRecommendation(urgency, impactScore, timestamp) ==
    /\ RecommendationsCreated < MaxRecommendations
    /\ dbRecommendations' = dbRecommendations \cup
           {[id |-> RecommendationsCreated + 1, urgency |-> urgency,
             impactScore |-> impactScore, timestamp |-> timestamp]}
    /\ UNCHANGED <<memRecommendations, memPanelMap, dbPanelRows, listed>>
    /\ UNCHANGED <<delegatorVars, transportVars, scoreVars, tiltVars, alertVars, faultVars>>

MemListRecommendations ==
    /\ listed' = [op |-> "getRecommendations", backend |-> "mem",
                  list |-> MemGetRecommendations(memRecommendations)]
    /\ UNCHANGED <<memRecommendations, dbRecommendations, memPanelMap, dbPanelRows>>
    /\ UNCHANGED <<delegatorVars, transportVars, scoreVars, tiltVars, alertVars, faultVars>>

DbListRecommendations ==
    /\ \E list \in DbGetRecommendations(dbRecommendations) :
           listed' = [op |-> "getRecommendations", backend |-> "db", list |-> list]
    /\ UNCHANGED <<memRecommendations, dbRecommendations, memPanelMap, dbPanelRows>>
    /\ UNCHANGED <<delegatorVars, transportVars, scoreVars, tiltVars, alertVars, faultVars>>

NextRecommendations ==
    \/ \E u \in Urgencies, i \in ImpactScores : MemCreateRecommendation(u, i)
    \/ \E u \in Urgencies, i \in ImpactScores, t \in Timestamps(dbRecommendations) :
           DbCreateRecommendation(u, i, t)
    \/ MemListRecommendations
    \/ DbListRecommendations

SpecRecommendations == Init /\ [][NextRecommendations]_vars

\* The elements of a list, each as often as it occurs.
Range(list) == {list[i] : i \in DOMAIN list}

\* High before medium before low, and the higher impact first among
\* recommendations of one urgency.
ByUrgencyThenImpact(list) ==
    \A i, j \in DOMAIN list : i < j =>
        \/ urgencyOrder(list[i].urgency) > urgencyOrder(list[j].urgency)
        \/ /\ list[i].urgency = list[j].urgency
           /\ list[i].impactScore >= list[j].impactScore

\* C16: every list that getRecommendations returns, in the in-memory and in
\* the durable backend, holds the stored recommendations with high urgency
\* before medium before low and, within one urgency, the higher impact score
\* first, in whatever order they were created.
RecommendationsByUrgencyThenImpact ==
    listed.op = "getRecommendations" => ByUrgencyThenImpact(listed.list)

\* The part of C16 that holds: the in-memory backend orders by urgency and
\* then by impact score.
MemRecommendationsByUrgencyThenImpact ==
    (listed.op = "getRecommendations" /\ listed.backend = "mem") =>
        /\ ByUrgencyThenImpact(listed.list)
        /\ Range(listed.list) \subseteq Range(memRecommendations)

MemRecommendationsByUrgencyThenImpactWitness ==
    /\ listed.op = "getRecommendations"
    /\ listed.backend = "mem"
    /\ Len(listed.list) = 3
    /\ listed.list # memRecommendations
    /\ listed.list[1].urgency = "high"
    /\ listed.list[2].urgency = "low"
    /\ listed.list[3].urgency = "low"
    /\ listed.list[2].impactScore > listed.list[3].impactScore

\* Where C16 fails: the durable backend returns a low-urgency recommendation,
\* created later, in front of a high-urgency one.
DbRecommendationsNewestFirst ==
    /\ listed.op = "getRecommendations"
    /\ listed.backend = "db"
    /\ Len(listed.list) = 2
    /\ listed.list[1].urgency = "low"
    /\ listed.list[2].urgency = "high"
    /\ listed.list[1].timestamp > listed.list[2].timestamp

\* ---------------------------------------------------------------------
\* Panels: createPanel and getAllPanels of the two backends.
\* ---------------------------------------------------------------------

PanelNumbers == 0..MaxPanelNumber

\* A comparator that compares nothing: the array keeps its order.
CompareNothing(a, b) == 0

\* The comparator of getAllPanels.
ComparePanels(a, b) == a.panelNumber - b.panelNumber

RECURSIVE InsertPanel(_, _)
InsertPanel(sorted, x) ==
    IF sorted = << >> THEN <<x>>
    ELSE LET last == sorted[Len(sorted)]
         IN  IF ComparePanels(last, x) <= 0
             THEN Append(sorted, x)
             ELSE Append(InsertPanel(SubSeq(sorted, 1, Len(sorted) - 1), x), last)

RECURSIVE SortPanels(_)
SortPanels(array) ==
    IF array = << >> THEN << >>
    ELSE InsertPanel(SortPanels(SubSeq(array, 1, Len(array) - 1)), array[Len(array)])

MemGetAllPanels(map) == SortPanels(map)

\* select ... from panels order by panel_number: every order of the rows in
\* which the panel numbers do not decrease.
DbGetAllPanels(rows) ==
    {list \in [1..Cardinality(rows) -> rows] :
        /\ \A i, j \in DOMAIN list : i # j => list[i] # list[j]
        /\ \A i, j \in DOMAIN list : i < j => list[i].panelNumber <= list[j].panelNumber}

PanelsCreated == Len(memPanelMap) + Cardinality(dbPanelRows) - 2 * NumPanels

\* The map takes any panel number, one that it already holds included.
MemCreatePanel(panelNumber) ==
    /\ PanelsCreated < MaxNewPanels
    /\ memPanelMap' = Append(memPanelMap,
           [id |-> <<"uuid", PanelsCreated + 1>>, panelNumber |-> panelNumber])
    /\ UNCHANGED <<memRecommendations, dbRecommendations, dbPanelRows, listed>>
    /\ UNCHANGED <<delegatorVars, transportVars, scoreVars, tiltVars, alertVars, faultVars>>

\* panel_number is UNIQUE: the insert of a number that the table holds is
\* rejected and leaves the table as it is.
DbCreatePanel(panelNumber) ==
    /\ PanelsCreated < MaxNewPanels
    /\ \A row \in dbPanelRows : row.panelNumber # panelNumber
    /\ dbPanelRows' = dbPanelRows \cup
           {[id |-> <<"uuid", PanelsCreated + 1>>, panelNumber |-> panelNumber]}
    /\ UNCHANGED <<memRecommendations, dbRecommendations, memPanelMap, listed>>
    /\ UNCHANGED <<delegatorVars, transportVars, scoreVars, tiltVars, alertVars, faultVars>>

MemListPanels ==
    /\ listed' = [op |-> "getAllPanels", backend |-> "mem",
                  list |-> MemGetAllPanels(memPanelMap)]
    /\ UNCHANGED <<memRecommendations, dbRecommendations, memPanelMap, dbPanelRows>>
    /\ UNCHANGED <<delegatorVars, transportVars, scoreVars, tiltVars, alertVars, faultVars>>

DbListPanels ==
    /\ \E list \in DbGetAllPanels(dbPanelRows) :
           listed' = [op |-> "getAllPanels", backend |-> "db", list |-> list]
    /\ UNCHANGED <<memRecommendations, dbRecommendations, memPanelMap, dbPanelRows>>
    /\ UNCHANGED <<delegatorVars, transportVars, scoreVars, tiltVars, alertVars, faultVars>>

NextPanels ==
    \/ \E n \in PanelNumbers : MemCreatePanel(n)
    \/ \E n \in PanelNumbers : DbCreatePanel(n)
    \/ MemListPanels
    \/ DbListPanels

SpecPanels == Init /\ [][NextPanels]_vars

\* The panels that a backend stores.
StoredPanels(backend) ==
    IF backend = "mem" THEN Range(memPanelMap) ELSE dbPanelRows

\* C17: whenever getAllPanels returns, in either backend, the list holds
\* every stored panel exactly once and the panel numbers never decrease
\* along it, in whatever order the panels were created.
AllPanelsAscending ==
    [][(listed' # listed /\ listed'.op = "getAllPanels") =>
          /\ Range(listed'.list) = StoredPanels(listed'.backend)
          /\ Len(listed'.list) = Cardinality(StoredPanels(listed'.backend))
          /\ \A i, j \in DOMAIN listed'.list :
                 i < j => listed'.list[i].panelNumber <= listed'.list[j].panelNumber]_vars

\* Panels created out of order, and one with a number already taken, are
\* returned in an order other than that of their creation.
AllPanelsAscendingWitness ==
    /\ listed.op = "getAllPanels"
    /\ listed.backend = "mem"
    /\ Len(listed.list) = NumPanels + 3
    /\ listed.list # memPanelMap
    /\ memPanelMap[NumPanels + 1].panelNumber > memPanelMap[NumPanels + 2].panelNumber
    /\ memPanelMap[NumPanels + 3].panelNumber = 1

\* ---------------------------------------------------------------------
\* Auto-tilt settings: getAutoTiltSettings and updateAutoTiltSettings of
\* the two backends.  The operations of MemStorage contain no await and run
\* in one job; those of DbStorage await each query, and the jobs of
\* several calls interleave.
\* ---------------------------------------------------------------------

\* The partial settings that a caller passes.
TiltUpdates ==
    {NoFields,
     [enabled |-> TRUE],
     [minTiltAngle |-> 20, maxTiltAngle |-> 45],
     [mode |-> "weather_based", aggressiveness |-> "aggressive"]}

\* { ...previous, ...settings }: the fields of settings over those of
\* previous.  It is also what "settings.f ?? default" gives over the
\* defaults, and what the columns of a row are after update ... set settings.
MergeSettings(previous, settings) ==
    [f \in TiltFields |-> IF f \in DOMAIN settings THEN settings[f] ELSE previous[f]]

MemGetAutoTiltSettings ==
    /\ tiltReturned' = [backend |-> "mem", op |-> "get", call |-> 0,
                        settings |-> NoFields, value |-> memAutoTilt]
    /\ UNCHANGED <<memAutoTilt, dbAutoTilt, tiltCalls>>
    /\ UNCHANGED <<delegatorVars, transportVars, scoreVars, catalogVars, alertVars, faultVars>>

\* autoTiltSettings is set by the constructor, so the branch that
\* initialises it is never taken.
MemUpdateAutoTiltSettings(settings) ==
    /\ memAutoTilt' = MergeSettings(memAutoTilt, settings)
    /\ tiltReturned' = [backend |-> "mem", op |-> "update", call |-> 0,
                        settings |-> settings, value |-> memAutoTilt']
    /\ UNCHANGED <<dbAutoTilt, tiltCalls>>
    /\ UNCHANGED <<delegatorVars, transportVars, scoreVars, catalogVars, alertVars, faultVars>>

\* Calls are numbered in the order in which they start.
NextTiltCall(c) ==
    /\ tiltCalls[c].st = "free"
    /\ \A d \in TiltCallIds : d < c => tiltCalls[d].st # "free"

\* DbStorage.getAutoTiltSettings up to its await: the select is sent.
DbGetAutoTiltSettings(c) ==
    /\ NextTiltCall(c)
    /\ tiltCalls' = [tiltCalls EXCEPT ![c] =
           [st |-> "getSelect", op |-> "get", settings |-> NoFields, existing |-> 0]]
    /\ UNCHANGED <<memAutoTilt, dbAutoTilt, tiltReturned>>
    /\ UNCHANGED <<delegatorVars, transportVars, scoreVars, catalogVars, alertVars, faultVars>>

\* DbStorage.updateAutoTiltSettings up to its first await: the select is
\* sent.
DbUpdateAutoTiltSettings(c, settings) ==
    /\ NextTiltCall(c)
    /\ tiltCalls' = [tiltCalls EXCEPT ![c] =
           [st |-> "select", op |-> "update", settings |-> settings, existing |-> 0]]
    /\ UNCHANGED <<memAutoTilt, dbAutoTilt, tiltReturned>>
    /\ UNCHANGED <<delegatorVars, transportVars, scoreVars, catalogVars, alertVars, faultVars>>

\* select ... limit 1 without an order: any one row, or none when the
\* table is empty (0).
SelectLimitOne(rows) == IF rows = {} THEN {0} ELSE {row.id : row \in rows}

RowOf(rows, id) == CHOOSE row \in rows : row.id = id

\* The select of getAutoTiltSettings resolves.  With a row the call
\* returns it; without one it calls updateAutoTiltSettings(defaultSettings),
\* which sends its own select.
DbGetSelectResolves(c) ==
    /\ tiltCalls[c].st = "getSelect"
    /\ \E result \in SelectLimitOne(dbAutoTilt) :
           IF result = 0
           THEN /\ tiltCalls' = [tiltCalls EXCEPT ![c].st = "select",
                                                  ![c].settings = defaultSettings]
                /\ UNCHANGED tiltReturned
           ELSE /\ tiltCalls' = [tiltCalls EXCEPT ![c].st = "done"]
                /\ tiltReturned' = [backend |-> "db", op |-> "get", call |-> c,
                                    settings |-> NoFields,
                                    value |-> RowOf(dbAutoTilt, result).settings]
    /\ UNCHANGED <<memAutoTilt, dbAutoTilt>>
    /\ UNCHANGED <<delegatorVars, transportVars, scoreVars, catalogVars, alertVars, faultVars>>

\* The select of updateAutoTiltSettings resolves: the call keeps what it
\* found and sends the insert or the update.
DbUpdateSelectResolves(c) ==
    /\ tiltCalls[c].st = "select"
    /\ \E existing \in SelectLimitOne(dbAutoTilt) :
           tiltCalls' = [tiltCalls EXCEPT ![c].st = "write", ![c].existing = existing]
    /\ UNCHANGED <<memAutoTilt, dbAutoTilt, tiltReturned>>
    /\ UNCHANGED <<delegatorVars, transportVars, scoreVars, catalogVars, alertVars, faultVars>>

\* The row that the insert adds: a fresh id, and each column from the
\* settings or else its default.
InsertedRow(c, settings) ==
    [id |-> c, settings |-> MergeSettings(defaultSettings, settings)]

\* The rows after update ... set settings where id = existing.
UpdatedRows(rows, existing, settings) ==
    {IF row.id = existing
     THEN [row EXCEPT !.settings = MergeSettings(row.settings, settings)]
     ELSE row : row \in rows}

\* The insert or the update of updateAutoTiltSettings resolves and the call
\* returns the row that the statement returns.
DbWriteResolves(c) ==
    /\ tiltCalls[c].st = "write"
    /\ dbAutoTilt' =
           IF tiltCalls[c].existing = 0
           THEN dbAutoTilt \cup {InsertedRow(c, tiltCalls[c].settings)}
           ELSE UpdatedRows(dbAutoTilt, tiltCalls[c].existing, tiltCalls[c].settings)
    /\ tiltCalls' = [tiltCalls EXCEPT ![c].st = "done"]
    /\ tiltReturned' =
           [backend |-> "db", op |-> tiltCalls[c].op, call |-> c,
            settings |-> tiltCalls[c].settings,
            value |-> RowOf(dbAutoTilt',
                           IF tiltCalls[c].existing = 0 THEN c
                           ELSE tiltCalls[c].existing).settings]
    /\ UNCHANGED memAutoTilt
    /\ UNCHANGED <<delegatorVars, transportVars, scoreVars, catalogVars, alertVars, faultVars>>

NextTilt ==
    \/ MemGetAutoTiltSettings
    \/ \E settings \in TiltUpdates : MemUpdateAutoTiltSettings(settings)
    \/ \E c \in TiltCallIds : DbGetAutoTiltSettings(c)
    \/ \E c \in TiltCallIds, settings \in TiltUpdates : DbUpdateAutoTiltSettings(c, settings)
    \/ \E c \in TiltCallIds : DbGetSelectResolves(c)
    \/ \E c \in TiltCallIds : DbUpdateSelectResolves(c)
    \/ \E c \in TiltCallIds : DbWriteResolves(c)

SpecTilt == Init /\ [][NextTilt]_vars

\* C18: a backend never holds more than one AutoTiltSettings instance, and
\* holds exactly one once a getAutoTiltSettings or an updateAutoTiltSettings
\* has completed, whatever the interleaving of the calls, those that start
\* while no instance exists included.
SingleAutoTiltSettings ==
    /\ Cardinality(dbAutoTilt) <= 1
    /\ (\E c \in TiltCallIds : tiltCalls[c].st = "done") => Cardinality(dbAutoTilt) = 1
    /\ DOMAIN memAutoTilt = TiltFields

\* Where C18 fails: two calls that both found the table empty have both
\* inserted.
TwoAutoTiltSettings ==
    /\ Cardinality(dbAutoTilt) = 2
    /\ tiltCalls[1].st = "done" /\ tiltCalls[1].existing = 0
    /\ tiltCalls[2].st = "done" /\ tiltCalls[2].existing = 0

\* What a getAutoTiltSettings that runs alone returns: the settings of a
\* row, or the defaults when there is no row yet.
StoredSettings(rows) ==
    IF rows = {} THEN {defaultSettings} ELSE {row.settings : row \in rows}

\* C19: when updateAutoTiltSettings completes, the stored settings are the
\* previous ones (the defaults if there were none) with the fields of the
\* update laid over them, every other field unchanged, and that merged state
\* is what a following getAutoTiltSettings returns.
TiltUpdateMerges ==
    [][/\ (tiltReturned' # tiltReturned /\ tiltReturned'.backend = "mem"
              /\ tiltReturned'.op = "update") =>
           /\ memAutoTilt' = MergeSettings(memAutoTilt, tiltReturned'.settings)
           /\ tiltReturned'.value = memAutoTilt'
       /\ \A c \in TiltCallIds :
           (tiltCalls[c].st = "write" /\ tiltCalls'[c].st = "done") =>
               \A before \in StoredSettings(dbAutoTilt), after \in StoredSettings(dbAutoTilt') :
                   after = MergeSettings(before, tiltCalls[c].settings)]_vars

\* The part of C19 that holds: the merge, as long as the table of the
\* durable backend holds one row at most.
TiltUpdateMergesOnSingleton ==
    [][/\ (tiltReturned' # tiltReturned /\ tiltReturned'.backend = "mem"
              /\ tiltReturned'.op = "update") =>
           /\ memAutoTilt' = MergeSettings(memAutoTilt, tiltReturned'.settings)
           /\ tiltReturned'.value = memAutoTilt'
       /\ \A c \in TiltCallIds :
           (tiltCalls[c].st = "write" /\ tiltCalls'[c].st = "done"
              /\ Cardinality(dbAutoTilt') <= 1) =>
               \A before \in StoredSettings(dbAutoTilt), after \in StoredSettings(dbAutoTilt') :
                   /\ after = MergeSettings(before, tiltCalls[c].settings)
                   /\ tiltReturned'.value = after]_vars

\* Where C19 fails: an update has returned while the table holds two rows
\* with different settings, and a following getAutoTiltSettings may return
\* either.
TiltUpdateOnOneRowOfTwo ==
    /\ tiltReturned.backend = "db"
    /\ tiltReturned.op = "update"
    /\ tiltCalls[3].st = "done"
    /\ tiltCalls[3].existing # 0
    /\ Cardinality(StoredSettings(dbAutoTilt)) = 2
    /\ tiltReturned.value.enabled
    /\ \E row \in dbAutoTilt : ~row.settings.enabled

\* ---------------------------------------------------------------------
\* GET /api/panels/:id beside the creation of readings.
\* ---------------------------------------------------------------------

\* The levels last polled from the hardware, 0 until the first poll.
LastPolledLevels == SensorReadouts \cup {NoSensor}

\* What the reading routes and the detail route ask of the delegator; the
\* detail request carries the last polled levels that its handler reads.
DetailRequests ==
    [op : {"createReading"}, panelId : RequestPanels, sensor : SensorReadouts]
    \cup [op : {"getPanelDetail"}, panelId : RequestPanels, sensor : LastPolledLevels]

NextDetail ==
    \/ \E request \in DetailRequests : HandlerCall(request)
    \/ \E c \in CallIds : DbStepOk(c)
    \/ \E c \in CallIds, message \in ErrorMessages : DbStepFail(c, message)

SpecDetail == Init /\ [][NextDetail]_vars

\* C20: a reading that a backend holds stays in it with every field as it
\* was created, whatever storage operation or request handler runs.
StoredReadingsImmutable ==
    [][/\ \A r \in memStorage.sensorReadings : r \in memStorage'.sensorReadings
       /\ \A r \in db.sensorReadings : r \in db'.sensorReadings]_vars

\* Where C20 fails: after the detail handler has run, the in-memory backend
\* holds a reading whose energy output is no longer the one that its
\* efficiency was computed from at creation.
StoredReadingOverwritten ==
    /\ returned # << >>
    /\ returned[Len(returned)].op = "getPanelDetail"
    /\ returned[Len(returned)].via = "mem"
    /\ returned[Len(returned)].reading \in memStorage.sensorReadings
    /\ returned[Len(returned)].reading.efficiencyPercent #
           ClampPercent(efficiencyPercent(returned[Len(returned)].reading.energyOutput))

\* ---------------------------------------------------------------------
\* Readings made from values that the sensor source yields out of range
\* or not as finite numbers.
\* ---------------------------------------------------------------------

\* Records of the sensor source with a NaN, an infinite and an
\* over-range energy output, and with a NaN temperature.
UncheckedReadouts ==
    { [energyOutput |-> NaN, temperature |-> 25, dustLevel |-> 0],
      [energyOutput |-> PosInfinity, temperature |-> 25, dustLevel |-> 0],
      [energyOutput |-> 300, temperature |-> NaN, dustLevel |-> 0] }

\* What the reading routes ask of the delegator with such a record.
UncheckedRequests ==
    [op : {"createReading"}, panelId : RequestPanels, sensor : UncheckedReadouts]

\* What getAllSensorData returns with such a record for the first panel.
UncheckedSnapshots ==
    { <<[panelId |-> 1, sensor |-> sensor]>> : sensor \in UncheckedReadouts }

NextUnchecked ==
    \/ \E request \in UncheckedRequests : HandlerCall(request)
    \/ \E c \in CallIds : DbStepOk(c)
    \/ Start
    \/ \E snapshot \in UncheckedSnapshots : Tick(snapshot)

SpecUnchecked == Init /\ [][NextUnchecked]_vars

StoredReadings == memStorage.sensorReadings \cup db.sensorReadings

\* C21: every reading that a backend holds, created by the ingestion loop
\* or by a reading route, has an efficiency percent within [0,100] and no
\* NaN or infinite energy output, temperature or dust level.
PersistedReadingsAreSafe ==
    \A r \in StoredReadings :
        /\ ~isNaN(r.efficiencyPercent) /\ isFinite(r.efficiencyPercent)
        /\ 0 <= r.efficiencyPercent /\ r.efficiencyPercent <= 100
        /\ ~isNaN(r.energyOutput) /\ isFinite(r.energyOutput)
        /\ ~isNaN(r.temperature) /\ isFinite(r.temperature)
        /\ ~isNaN(r.dustLevel) /\ isFinite(r.dustLevel)

\* The part of C21 that holds: an efficiency percent that is a number lies
\* within [0,100], for over-range and infinite energy outputs too.
EfficiencyClampedUnlessNaN ==
    \A r \in StoredReadings :
        isNaN(r.efficiencyPercent)
        \/ (0 <= r.efficiencyPercent /\ r.efficiencyPercent <= 100)

\* Where C21 fails: a cycle of the ingestion loop has saved a reading whose
\* energy output and efficiency percent are NaN.
NaNReadingPersisted ==
    /\ \E k \in TickIds : cycles[k].st = "done" /\ Len(cycles[k].savedReadings) = 1
    /\ \E r \in StoredReadings : isNaN(r.efficiencyPercent) /\ isNaN(r.energyOutput)

\* ---------------------------------------------------------------------
\* Panel numbers and the life of a panel.
\* ---------------------------------------------------------------------

\* No two panels of the collection have one panel number.
UniquePanelNumbers(stored) ==
    \A p, q \in stored : p.panelNumber = q.panelNumber => p = q

\* C22: after every storage operation no two panels stored by a backend
\* have the same panel number, and every panel stored before it is still
\* stored.
PanelNumbersUniqueAndKept ==
    [][/\ UniquePanelNumbers(StoredPanels("mem")')
       /\ UniquePanelNumbers(StoredPanels("db")')
       /\ StoredPanels("mem") \subseteq StoredPanels("mem")'
       /\ StoredPanels("db") \subseteq StoredPanels("db")']_vars

\* The part of C22 that holds: no panel is removed, and the panel numbers
\* of the durable backend stay unique.
PanelsKeptAndDurableNumbersUnique ==
    [][/\ UniquePanelNumbers(StoredPanels("db")')
       /\ StoredPanels("mem") \subseteq StoredPanels("mem")'
       /\ StoredPanels("db") \subseteq StoredPanels("db")']_vars

\* Where C22 fails: the in-memory backend holds the initial panel 1 and a
\* created panel with the number 1.
TwoPanelsNumberedOne ==
    /\ Len(memPanelMap) = NumPanels + 1
    /\ memPanelMap[1].panelNumber = 1
    /\ memPanelMap[NumPanels + 1].panelNumber = 1
    /\ memPanelMap[NumPanels + 1].id # memPanelMap[1].id

\* ---------------------------------------------------------------------
\* Alerts: createAlert, dismissAlert, getActiveAlerts and getAlertsByPanel
\* of the two backends.  Each operation of DbStorage is one statement.  The
\* lists are kept as sets: the order by timestamp is left out.
\* ---------------------------------------------------------------------

AlertsCreated == Cardinality(memAlerts) + Cardinality(dbAlerts)

\* The ids that dismissAlert is called with: those of the alerts that are
\* or will be created, and one that no alert has.
AlertIds == 1..(MaxAlerts + 1)

\* insertAlert.panelId ?? null, 0 standing for null.
AlertPanelIds == PanelIds \cup {0}

\* The alert of createAlert; id stands for randomUUID().
AlertOf(id, panelId) == [id |-> id, panelId |-> panelId, dismissed |-> FALSE]

MemCreateAlert(panelId) ==
    /\ AlertsCreated < MaxAlerts
    /\ memAlerts' = memAlerts \cup {AlertOf(AlertsCreated + 1, panelId)}
    /\ alertsReturned' = [op |-> "createAlert", backend |-> "mem", arg |-> panelId,
                          list |-> {AlertOf(AlertsCreated + 1, panelId)}]
    /\ UNCHANGED dbAlerts
    /\ UNCHANGED <<delegatorVars, transportVars, scoreVars, catalogVars, tiltVars, faultVars>>

DbCreateAlert(panelId) ==
    /\ AlertsCreated < MaxAlerts
    /\ dbAlerts' = dbAlerts \cup {AlertOf(AlertsCreated + 1, panelId)}
    /\ alertsReturned' = [op |-> "createAlert", backend |-> "db", arg |-> panelId,
                          list |-> {AlertOf(AlertsCreated + 1, panelId)}]
    /\ UNCHANGED memAlerts
    /\ UNCHANGED <<delegatorVars, transportVars, scoreVars, catalogVars, tiltVars, faultVars>>

\* A dismissal that flips the flag.
MemDismissToggles(alerts, id) ==
    {IF alert.id = id THEN [alert EXCEPT !.dismissed = ~@] ELSE alert : alert \in alerts}

\* const alert = this.alerts.get(id); if (alert) { alert.dismissed = true; ... }
MemDismiss(alerts, id) ==
    {IF alert.id = id THEN [alert EXCEPT !.dismissed = TRUE] ELSE alert : alert \in alerts}

\* update alerts set dismissed = true where id = id
DbDismiss(rows, id) ==
    {IF row.id = id THEN [row EXCEPT !.dismissed = TRUE] ELSE row : row \in rows}

MemDismissAlert(id) ==
    /\ memAlerts' = MemDismiss(memAlerts, id)
    /\ alertsReturned' = [op |-> "dismissAlert", backend |-> "mem", arg |-> id, list |-> {}]
    /\ UNCHANGED dbAlerts
    /\ UNCHANGED <<delegatorVars, transportVars, scoreVars, catalogVars, tiltVars, faultVars>>

DbDismissAlert(id) ==
    /\ dbAlerts' = DbDismiss(dbAlerts, id)
    /\ alertsReturned' = [op |-> "dismissAlert", backend |-> "db", arg |-> id, list |-> {}]
    /\ UNCHANGED memAlerts
    /\ UNCHANGED <<delegatorVars, transportVars, scoreVars, catalogVars, tiltVars, faultVars>>

\* filter((alert) => !alert.dismissed)
MemActiveAlerts(alerts) == {alert \in alerts : ~alert.dismissed}

\* where dismissed = false
DbActiveAlerts(rows) == {row \in rows : row.dismissed = FALSE}

MemGetActiveAlerts ==
    /\ alertsReturned' = [op |-> "getActiveAlerts", backend |-> "mem", arg |-> 0,
                          list |-> MemActiveAlerts(memAlerts)]
    /\ UNCHANGED <<memAlerts, dbAlerts>>
    /\ UNCHANGED <<delegatorVars, transportVars, scoreVars, catalogVars, tiltVars, faultVars>>

DbGetActiveAlerts ==
    /\ alertsReturned' = [op |-> "getActiveAlerts", backend |-> "db", arg |-> 0,
                          list |-> DbActiveAlerts(dbAlerts)]
    /\ UNCHANGED <<memAlerts, dbAlerts>>
    /\ UNCHANGED <<delegatorVars, transportVars, scoreVars, catalogVars, tiltVars, faultVars>>

MemGetAlertsByPanel(panelId) ==
    /\ alertsReturned' = [op |-> "getAlertsByPanel", backend |-> "mem", arg |-> panelId,
                          list |-> {alert \in memAlerts : alert.panelId = panelId}]
    /\ UNCHANGED <<memAlerts, dbAlerts>>
    /\ UNCHANGED <<delegatorVars, transportVars, scoreVars, catalogVars, tiltVars, faultVars>>

DbGetAlertsByPanel(panelId) ==
    /\ alertsReturned' = [op |-> "getAlertsByPanel", backend |-> "db", arg |-> panelId,
                          list |-> {row \in dbAlerts : row.panelId = panelId}]
    /\ UNCHANGED <<memAlerts, dbAlerts>>
    /\ UNCHANGED <<delegatorVars, transportVars, scoreVars, catalogVars, tiltVars, faultVars>>

NextAlerts ==
    \/ \E panelId \in AlertPanelIds : MemCreateAlert(panelId)
    \/ \E panelId \in AlertPanelIds : DbCreateAlert(panelId)
    \/ \E id \in AlertIds : MemDismissAlert(id)
    \/ \E id \in AlertIds : DbDismissAlert(id)
    \/ MemGetActiveAlerts
    \/ DbGetActiveAlerts
    \/ \E panelId \in PanelIds : MemGetAlertsByPanel(panelId)
    \/ \E panelId \in PanelIds : DbGetAlertsByPanel(panelId)

SpecAlerts == Init /\ [][NextAlerts]_vars

\* Every alert of before is an alert of after with the same id and panel,
\* and dismissed if it was dismissed.
AlertsKept(before, after) ==
    \A alert \in before :
        \/ alert \in after
        \/ ~alert.dismissed /\ [alert EXCEPT !.dismissed = TRUE] \in after

\* The alert with the id is unknown or already dismissed.
NothingToDismiss(alerts, id) ==
    \A alert \in alerts : alert.id = id => alert.dismissed

\* C23: in either backend an alert is never removed and its dismissed flag
\* never goes back to false; dismissAlert(id) leaves the alert dismissed;
\* getActiveAlerts returns the alerts that are not dismissed and no other;
\* getAlertsByPanel returns the alerts of the panel, the dismissed ones
\* included; and dismissing an unknown or an already dismissed id changes
\* no alert.
DismissedStaysDismissed ==
    [][/\ AlertsKept(memAlerts, memAlerts')
       /\ AlertsKept(dbAlerts, dbAlerts')
       /\ Cardinality(memAlerts') >= Cardinality(memAlerts)
       /\ Cardinality(dbAlerts') >= Cardinality(dbAlerts)
       /\ \A id \in AlertIds :
              /\ MemDismissAlert(id) =>
                     /\ \A alert \in memAlerts' : alert.id = id => alert.dismissed
                     /\ NothingToDismiss(memAlerts, id) => memAlerts' = memAlerts
              /\ DbDismissAlert(id) =>
                     /\ \A row \in dbAlerts' : row.id = id => row.dismissed
                     /\ NothingToDismiss(dbAlerts, id) => dbAlerts' = dbAlerts
       /\ MemGetActiveAlerts =>
              alertsReturned'.list = {alert \in memAlerts : ~alert.dismissed}
       /\ DbGetActiveAlerts =>
              alertsReturned'.list = {row \in dbAlerts : ~row.dismissed}
       /\ \A panelId \in PanelIds :
              /\ MemGetAlertsByPanel(panelId) =>
                     alertsReturned'.list = {alert \in memAlerts : alert.panelId = panelId}
              /\ DbGetAlertsByPanel(panelId) =>
                     alertsReturned'.list = {row \in dbAlerts : row.panelId = panelId}]_vars

\* An alert of panel 1 has been dismissed, and getAlertsByPanel returns it
\* beside an alert of the panel that is still active.
DismissedStaysDismissedWitness ==
    /\ alertsReturned.op = "getAlertsByPanel"
    /\ alertsReturned.backend = "mem"
    /\ alertsReturned.arg = 1
    /\ \E a, b \in alertsReturned.list : a.dismissed /\ ~b.dismissed
    /\ Cardinality(MemActiveAlerts(memAlerts)) < Cardinality(memAlerts)

\* ---------------------------------------------------------------------
\* The delegator built without a durable backend.
\* ---------------------------------------------------------------------

\* C24: a delegator built without a durable backend has none later, keeps
\* the in-memory backend active, the failure counter at 0 and the state
\* MEMORY_ONLY, invokes no method of the durable backend, leaves the
\* database as it was, and answers every call from the in-memory backend.
MemoryOnlyNeverLeavesMemory ==
    [][dbStorage = "null" =>
          /\ dbStorage' = "null"
          /\ activeStorage' = "mem"
          /\ dbFailureCount' = 0
          /\ usingMemStorage' = FALSE
          /\ DelegatorState(dbStorage', usingMemStorage') = "MEMORY_ONLY"
          /\ dbInvocations' = 0
          /\ \A c \in CallIds : calls'[c].st = "free"
          /\ db' = SeededDatabase
          /\ \A i \in DOMAIN returned' :
                 /\ returned'[i].via = "mem"
                 /\ returned'[i].kind = "value"
                 /\ returned'[i].invokedIn = "MEMORY_ONLY"]_vars

\* The delegator without a durable backend has answered every call it was
\* given, readings created among them.
MemoryOnlyNeverLeavesMemoryWitness ==
    /\ dbStorage = "null"
    /\ nextCall = MaxCalls + 1
    /\ returned # << >>
    /\ returned[1].via = "mem"
    /\ Cardinality(memStorage.sensorReadings) >= 2

\* ---------------------------------------------------------------------
\* The broadcast of an ingestion cycle.
\* ---------------------------------------------------------------------

\* The aggregatedUpdate messages of cycle k among the messages.
BroadcastsOf(messages, k) == {i \in DOMAIN messages : messages[i].cycle = k}

SensorDataEvents == PanelIds

\* broadcastSensorData (lines 56-68), called for a 'sensorData' event.
BroadcastSensorData(sensorData) ==
    /\ Len(wire) + Cardinality(clients) <= MaxSent
    /\ wire' = SendToEach(wire, BroadcastTargets(clients, readyState),
                          JSONstringify([type |-> "sensorUpdate", panelId |-> sensorData]))
    /\ broadcastOutcome' = IF SendThrows(BroadcastTargets(clients, readyState))
                           THEN "threw" ELSE "returned"
    /\ UNCHANGED <<clients, readyState, sendFails>>
    /\ UNCHANGED <<delegatorVars, scoreVars, catalogVars, tiltVars, alertVars>>

\* broadcastAlert (lines 71-83).
BroadcastAlert(alert) ==
    /\ Len(wire) + Cardinality(clients) <= MaxSent
    /\ wire' = SendToEach(wire, BroadcastTargets(clients, readyState),
                          JSONstringify([type |-> "alert", panelId |-> alert]))
    /\ broadcastOutcome' = IF SendThrows(BroadcastTargets(clients, readyState))
                           THEN "threw" ELSE "returned"
    /\ UNCHANGED <<clients, readyState, sendFails>>
    /\ UNCHANGED <<delegatorVars, scoreVars, catalogVars, tiltVars, alertVars>>

NextRealtime ==
    \/ \E ws \in Sockets : Connect(ws)
    \/ \E ws \in Sockets, text \in ClientTexts : ClientMessage(ws, text)
    \/ \E ws \in Sockets : BeginClose(ws)
    \/ \E ws \in Sockets : Close(ws)
    \/ \E data \in Payloads : Broadcast(data)
    \/ \E sensorData \in SensorDataEvents : BroadcastSensorData(sensorData)
    \/ \E alert \in SensorDataEvents : BroadcastAlert(alert)

SpecRealtime == Init /\ [][NextRealtime]_vars

\* The types of the messages that the broadcasts send.
BroadcastTypes == {"sensorUpdate", "alert", "aggregatedUpdate"}

\* C26: a socket that has not connected has been sent nothing; the first
\* message sent to a socket that has connected is the 'connected'
\* confirmation, so every sensorUpdate, alert and aggregatedUpdate sent to
\* it comes after the confirmation, which is sent once.
ConnectedPrecedesBroadcasts ==
    \A ws \in Sockets :
        LET received == SentTo(wire, ws)
        IN  IF readyState[ws] = "none" THEN received = << >>
            ELSE /\ received # << >>
                 /\ received[1] = ConnectedMessage
                 /\ \A i \in 2..Len(received) : received[i] # ConnectedMessage
                 /\ \A i \in 1..Len(received) :
                        JSONparse(received[i]).type \in BroadcastTypes =>
                            \E j \in 1..(i - 1) : received[j] = ConnectedMessage

\* Socket 2 connected after socket 1, and an alert was then broadcast to
\* both.
ConnectedPrecedesBroadcastsWitness ==
    /\ Len(wire) = 4
    /\ wire[1] = [to |-> 1, text |-> ConnectedMessage]
    /\ wire[2] = [to |-> 2, text |-> ConnectedMessage]
    /\ wire[3] = [to |-> 1, text |-> JSONstringify([type |-> "alert", panelId |-> 1])]
    /\ wire[4] = [to |-> 2, text |-> JSONstringify([type |-> "alert", panelId |-> 1])]

\* ---------------------------------------------------------------------
\* The failure counter and the switch of the delegator.
\* ---------------------------------------------------------------------

\* C27: in every state of a delegator built with a durable backend, with
\* any number of calls in flight, the failure counter is at most 2 while
\* usingMemStorage is false, and the active backend is the in-memory one
\* whenever usingMemStorage is true.
CounterBelowThresholdUntilSwitch ==
    Durable =>
        /\ ~usingMemStorage => (0 <= dbFailureCount /\ dbFailureCount <= 2)
        /\ usingMemStorage => activeStorage = "mem"

\* The third connectivity failure has switched the delegator while another
\* durable call was still in flight.
CounterBelowThresholdUntilSwitchWitness ==
    /\ Durable
    /\ usingMemStorage
    /\ activeStorage = "mem"
    /\ dbFailureCount = 3
    /\ InFlight # {}

\* ------------------------------------------------------------------------
\* Partial completion of a durable createReading (specification Spec)
\* ------------------------------------------------------------------------
\* The row that the insert of durable call c committed.
InsertedBy(c) ==
    ReadingOf(<<"db", calls[c].rid>>, InsertReadingOf(calls[c].panelId, calls[c].sensor))

\* The reading that MemStorage.createReading makes of the arguments of call c.
ReexecutedBy(c) ==
    ReadingOf(<<"mem", Cardinality(memStorage.sensorReadings) + 1>>,
              InsertReadingOf(calls[c].panelId, calls[c].sensor))

\* C28: when the health-score update of a durable createReading fails with
\* a connectivity error after its insert has committed, the whole operation
\* is executed again by MemStorage: the inserted row stays in the database,
\* which is otherwise left as it is, MemStorage stores a new reading of the
\* same arguments and updates the panel's score, and the caller is returned
\* the in-memory reading and nothing else.
PartialCreateReadingReexecutedInMemory ==
    [][\A c \in CallIds :
          (/\ calls[c].st = "update"
           /\ calls'[c].st = "free"
           /\ \E message \in ConnectivityMessages : DbStepFail(c, message)) =>
              /\ db' = db
              /\ InsertedBy(c) \in db'.sensorReadings
              /\ ReexecutedBy(c) \notin memStorage.sensorReadings
              /\ memStorage' = MemCreateReading(memStorage, ReexecutedBy(c).id,
                                    InsertReadingOf(calls[c].panelId, calls[c].sensor))
              /\ ReexecutedBy(c) \in memStorage'.sensorReadings
              /\ Len(returned') = 1
              /\ returned'[Len(returned')].call = c
              /\ returned'[Len(returned')].kind = "value"
              /\ returned'[Len(returned')].via = "mem"
              /\ returned'[Len(returned')].reading = ReexecutedBy(c)
              /\ returned'[Len(returned')].reading # InsertedBy(c)]_vars

\* A createReading was returned from MemStorage after its durable insert had
\* committed: the same measurement is stored by both backends and the
\* database still has the panel's initial score.
PartialCreateReadingReexecutedInMemoryWitness ==
    /\ Durable
    /\ Len(returned) >= 1
    /\ LET ret == returned[Len(returned)]
       IN  /\ ret.op = "createReading"
           /\ ret.fellBack
           /\ ret.via = "mem"
           /\ ret.reading \in memStorage.sensorReadings
           /\ \E r \in db.sensorReadings :
                 /\ r.id[1] = "db"
                 /\ [r EXCEPT !.id = ret.reading.id] = ret.reading
           /\ db.panels[ret.panelId] = InitialHealthScore
           /\ memStorage.panels[ret.panelId] = calculateHealthScore(ret.reading).totalScore
           /\ memStorage.panels[ret.panelId] # InitialHealthScore

\* ------------------------------------------------------------------------
\* A send that throws during a broadcast (specification SpecDelivery)
\* ------------------------------------------------------------------------
\* From now on client.send throws for open socket ws.
SendBreaks(ws) ==
    /\ readyState[ws] = "OPEN"
    /\ ws \notin sendFails
    /\ sendFails' = sendFails \cup {ws}
    /\ UNCHANGED broadcastOutcome
    /\ UNCHANGED <<delegatorVars, transportVars, scoreVars, catalogVars, tiltVars, alertVars>>

\* The snapshots of the deliveries: each panel reports the nominal readout.
DeliverySnapshots ==
    {snapshot \in Snapshots :
        \A i \in DOMAIN snapshot :
            snapshot[i].sensor = [energyOutput |-> 250, temperature |-> 25, dustLevel |-> 0]}

\* The ingestion service with its transport and the sockets of the clients.
NextDelivery ==
    \/ \E ws \in Sockets : Connect(ws)
    \/ \E ws \in Sockets : SendBreaks(ws)
    \/ \E data \in Payloads : Broadcast(data)
    \/ SetWebSocketServer
    \/ Start
    \/ \E snapshot \in DeliverySnapshots : Tick(snapshot)
    \/ \E c \in CallIds : DbStepOk(c)

SpecDelivery == Init /\ [][NextDelivery]_vars

\* The open sockets that the forEach visits before the first one whose send
\* throws.
ReachedBeforeThrow ==
    LET targets == BroadcastTargets(clients, readyState)
    IN  {ws \in targets : \A x \in targets \cap sendFails : ws < x}

\* The log grows by text sent once to each socket of reached, in the order
\* of the iteration, and by nothing else.
DeliveredOnlyTo(reached, text) ==
    /\ Len(wire') = Len(wire) + Cardinality(reached)
    /\ SubSeq(wire', 1, Len(wire)) = wire
    /\ \A i \in (Len(wire) + 1)..Len(wire') :
          /\ wire'[i].to \in reached
          /\ wire'[i].text = text
          /\ \A j \in (Len(wire) + 1)..Len(wire') : i < j => wire'[i].to < wire'[j].to

\* Cycle k ends in this step with a call of wsServer.broadcast.
CycleBroadcasts(k) ==
    /\ cycles[k].st # "done"
    /\ cycles'[k].st = "done"
    /\ cycles'[k].broadcasts = cycles[k].broadcasts + 1

\* The readings are held by the backend that created them.
Persisted(readings, m, d) ==
    \A i \in DOMAIN readings :
        IF readings[i].id[1] = "mem"
        THEN readings[i] \in m.sensorReadings
        ELSE readings[i] \in d.sensorReadings

\* C29: when the send to an open socket throws during a broadcast, the
\* call of broadcast ends with the exception and the message has been sent
\* to the open sockets before that one only, none of the later ones; when
\* an ingestion cycle made the call, the readings it saved are still stored,
\* the timer handler has caught the exception and released the guard, and
\* the timer is left running.
ThrowingSendEndsBroadcast ==
    [][SendThrows(BroadcastTargets(clients, readyState)) =>
          /\ \A data \in Payloads :
                Broadcast(data) =>
                   /\ broadcastOutcome' = "threw"
                   /\ DeliveredOnlyTo(ReachedBeforeThrow, JSONstringify(data))
          /\ \A k \in TickIds :
                CycleBroadcasts(k) =>
                   /\ broadcastOutcome' = "threw"
                   /\ DeliveredOnlyTo(ReachedBeforeThrow,
                                      JSONstringify(broadcasts'[Len(broadcasts')]))
                   /\ broadcasts'[Len(broadcasts')].cycle = k
                   /\ Len(cycles'[k].savedReadings) > 0
                   /\ Persisted(cycles'[k].savedReadings, memStorage', db')
                   /\ cycles'[k].caught = 1
                   /\ ~isPersisting'
                   /\ persistInterval' = "set"
                   /\ isRunning']_vars

\* The broadcast of the first cycle threw at the second of three open
\* sockets: the first socket has the message, the third has not, the
\* reading of the cycle is stored, and the next tick has begun a cycle.
ThrowingSendEndsBroadcastWitness ==
    /\ cycles[1].st = "done"
    /\ cycles[1].caught = 1
    /\ Len(cycles[1].savedReadings) > 0
    /\ Persisted(cycles[1].savedReadings, memStorage, db)
    /\ clients = {1, 2, 3}
    /\ \A ws \in clients : readyState[ws] = "OPEN"
    /\ sendFails = {2}
    /\ \E i \in DOMAIN wire :
          wire[i] = [to |-> 1, text |-> JSONstringify(broadcasts[1])]
    /\ \A i \in DOMAIN wire :
          wire[i].to = 3 => wire[i].text = ConnectedMessage
    /\ ~isPersisting
    /\ persistInterval = "set"
    /\ cycles[2].st # "none"

\* ------------------------------------------------------------------------
\* The re-entrancy guard (specification SpecGuard)
\* ------------------------------------------------------------------------
\* The ingestion service stopped and started again, with sockets whose send
\* may throw and a database that answers or rejects each statement.
NextGuard ==
    \/ \E ws \in Sockets : Connect(ws)
    \/ \E ws \in Sockets : SendBreaks(ws)
    \/ SetWebSocketServer
    \/ Start
    \/ Stop
    \/ \E snapshot \in DeliverySnapshots : Tick(snapshot)
    \/ \E c \in CallIds : DbStepOk(c)
    \/ \E c \in CallIds : DbStepFail(c, MsgDuplicateKey)

\* The pending statement of durable call c is answered or fails: the call
\* settles or goes on to its next statement.
StatementAnswered(c) ==
    /\ calls[c].st # "free"
    /\ \/ calls' = [calls EXCEPT ![c] = FreeCall]
       \/ calls'[c] # calls[c]

\* Every storage call eventually completes.
StorageCompletes ==
    \A c \in CallIds : WF_calls(StatementAnswered(c))

SpecGuard == Init /\ [][NextGuard]_vars /\ StorageCompletes

\* C30: the guard is set exactly while a cycle is in flight, so it is false
\* again when a cycle has ended, by the early return on an empty snapshot,
\* normally, or by an exception of the broadcast; a tick that fires when no
\* cycle is in flight reads a snapshot and runs a new cycle; no two cycles
\* are in flight together, stop() and start() in between or not; and, every
\* storage call completing, a cycle in flight ends and the guard is
\* released.
GuardAlwaysReleased ==
    /\ [](isPersisting <=> RunningCycles # {})
    /\ [][/\ Cardinality({k \in TickIds : cycles'[k].st = "running"}) <= 1
          /\ \A k \in TickIds :
                (cycles[k].st # "done" /\ cycles'[k].st = "done") =>
                    (~isPersisting' /\ cycles'[k].caught <= 1)
          /\ (ticks' = ticks + 1 /\ RunningCycles = {}) =>
                /\ skippedTicks' = skippedTicks
                /\ snapshotsRead' = snapshotsRead + 1
                /\ cycles'[ticks'].st \in {"running", "done"}
                /\ cycles'[ticks'].caught > 0 => broadcastOutcome' = "threw"
          /\ (isRunning /\ ~isRunning') => (isPersisting' = isPersisting /\ cycles' = cycles)
          /\ (~isRunning /\ isRunning') => (isPersisting' = isPersisting /\ cycles' = cycles)]_vars
    /\ \A k \in TickIds : (cycles[k].st = "running") ~> (cycles[k].st = "done")
    /\ isPersisting ~> ~isPersisting

\* The first cycle ended by the exception of its broadcast with the service
\* stopped, the guard is released, and the tick after it has run a cycle
\* that is waiting for the database.
GuardAlwaysReleasedWitness ==
    /\ cycles[1].st = "done"
    /\ cycles[1].caught = 1
    /\ skippedTicks = 0
    /\ snapshotsRead = 2
    /\ cycles[2].st = "running"
    /\ isPersisting
    /\ ~isRunning
    /\ persistInterval = "null"

====
